---- MODULE Spec2Model ----
(***************************************************************************)
(* Model of the Connector Resolver (scripts/agent_connectors.py) together  *)
(* with the part of the Configuration Resolver (scripts/config_loader.py)  *)
(* that feeds it.                                                          *)
(*                                                                         *)
(* A Python call either returns a value or raises.  Such a result is a     *)
(* record: construction results carry `exc` (the empty string when nothing *)
(* was raised) and the connector list built so far; probe and query        *)
(* results carry `raised` and `value`.                                     *)
(***************************************************************************)
EXTENDS Integers, Sequences, FiniteSets, TLC

VARIABLES
    agent_name,   \* argument of UniversalAgentConnector(agent_name)
    yaml_ok,      \* config_loader could be imported (else the stub get_config)
    doc,          \* content of config.yml as far as the resolver reads it
    environ,      \* names of the environment variables that are set (non-empty)
    sdk_ok,       \* the SDK client library of the agent can be imported
    connectors,   \* self.connectors
    exc,          \* exception that left the last call, "" when none
    pc,           \* position of the caller / of the loop in query()
    idx,          \* 1-based position of the for loop in query()
    calls,        \* what query() has invoked so far, in order
    last,         \* the last connector call: what the world answered, what it returned
    prompt,       \* argument of the current query() call
    result,       \* value returned by the last query() call
    available,    \* value returned by the last UniversalAgentConnector.is_available()
    rt,           \* a call of a function decorated with retry_with_backoff
    vk,           \* a call of validate_api_key
    cl,           \* the ConfigLoader singleton, config.yml, .env and os.environ
    gt,           \* a call of ConfigLoader.get
    js,           \* a call of safe_json_load
    fs,           \* a file, and calls of safe_file_read and safe_file_write on it
    rq,           \* a call of resilient_request
    ar,           \* the SourceArchiver and research_from_web
    kb,           \* the knowledge-base file and KBResearcher.update_kb
    tr,           \* the GitHubRepoTracker, its state file and the repository
    up,           \* a run of the AutoUpdater
    cm            \* the ConfigManager, .env and .env.template

vars == <<agent_name, yaml_ok, doc, environ, sdk_ok, connectors, exc, pc, idx,
          calls, last, prompt, result, available, rt, vk, cl, gt,
          js, fs, rq, ar, kb, tr, up, cm>>

\* the components added to the model last
Side == <<js, fs, rq, ar, kb, tr, up, cm>>

\* the variables of the resolver
ResolverVars == <<agent_name, yaml_ok, doc, environ, sdk_ok, connectors, exc, pc,
                  idx, calls, last, prompt, result, available>>

-----------------------------------------------------------------------------
(* Values *)

\* Python's None, where a string is expected otherwise
NONE == "None"

\* a component that is not exercised by the specification at hand
Idle == [pc |-> "idle"]

SideIdle ==
    /\ js = Idle
    /\ fs = Idle
    /\ rq = Idle
    /\ ar = Idle
    /\ kb = Idle
    /\ tr = Idle
    /\ up = Idle
    /\ cm = Idle

AgentNames == {"ollama", "OpenRouter", "mistral", "research"}

\* str.lower() on the names above
Lower(s) == IF s = "OpenRouter" THEN "openrouter" ELSE s

\* f"{AGENT}_API_KEY"
KeyVar(s) ==
    CASE Lower(s) = "ollama" -> "OLLAMA_API_KEY"
      [] Lower(s) = "openrouter" -> "OPENROUTER_API_KEY"
      [] Lower(s) = "mistral" -> "MISTRAL_API_KEY"
      [] OTHER -> "RESEARCH_API_KEY"

Modes == {"http", "sdk", "mcp", "docker", "local", "hybrid", "auto"}

Kinds == <<"HTTP", "SDK", "MCP", "Docker", "Local">>

\* the http sub-map: base_url (NONE when the key is missing), whether api_key
\* holds a non-empty value, api_key_env (NONE when the key is missing)
HttpMaps ==
    [base_url : {NONE, "http://localhost:11434/v1"},
     api_key : BOOLEAN,
     api_key_env : {NONE, "CUSTOM_KEY"}]

\* the docker sub-map: container_name present; ports missing, a list of
\* "host:container" strings, or an empty list
DockerMaps == {[container_name |-> FALSE, ports |-> "missing"],
               [container_name |-> TRUE, ports |-> "missing"],
               [container_name |-> TRUE, ports |-> "empty"]}

\* one agent's section of config.yml
AgentDocs ==
    [mode : Modes, enabled : BOOLEAN, http : HttpMaps,
     mcp : BOOLEAN,        \* mcp.server_url present
     docker : DockerMaps,
     local : BOOLEAN]      \* local.binary_path present

EmptyHttp == [base_url |-> NONE, api_key |-> FALSE, api_key_env |-> NONE]

EmptyDocker == [container_name |-> FALSE, ports |-> "missing"]

\* config_dict.get("OLLAMA", {}) with every .get default applied
DefaultAgentDoc ==
    [mode |-> "http", enabled |-> TRUE, http |-> EmptyHttp, mcp |-> FALSE,
     docker |-> EmptyDocker, local |-> FALSE]

-----------------------------------------------------------------------------
(* config_loader.py *)

\* ConfigLoader._apply_env_overrides, the per-agent API key overrides
apply_env_overrides(d, env) ==
    [d EXCEPT
        !.OLLAMA.http.api_key =
            IF "OLLAMA_API_KEY" \in env THEN TRUE ELSE @,
        !.OPENROUTER.http.api_key =
            IF "OPENROUTER_API_KEY" \in env THEN TRUE ELSE @]

\* ConfigLoader._dict_to_config: the openrouter AgentConfig is built without
\* docker and local, which keep their dataclass default {}
dict_to_config(d) ==
    [ollama |-> [kind |-> "agent", cfg |-> d.OLLAMA],
     openrouter |-> [kind |-> "agent",
                     cfg |-> [d.OPENROUTER EXCEPT !.docker = EmptyDocker,
                                                  !.local = FALSE]],
     research |-> [kind |-> "dict", truthy |-> d.RESEARCH]]

\* ConfigLoader.load / get_config
get_config(d, env) == dict_to_config(apply_env_overrides(d, env))

\* getattr(config, name, None)
getattr(config, name) ==
    IF name \in DOMAIN config THEN config[name] ELSE [kind |-> "none"]

\* os.getenv(name, ""): truthiness of the value, or TypeError for name None
getenv(name, env) ==
    IF name = NONE
    THEN [exc |-> "TypeError", value |-> FALSE]
    ELSE [exc |-> "", value |-> name \in env]

-----------------------------------------------------------------------------
(* agent_connectors.py: construction of the chain *)

Ok(cs) == [exc |-> "", connectors |-> cs]

Raise(e, cs) == [exc |-> e, connectors |-> cs]

Connector(kind, base_url, client) ==
    [kind |-> kind, base_url |-> base_url, client |-> client]

\* UniversalAgentConnector._initialize_from_env
initialize_from_env(name, env) ==
    IF Lower(name) = "ollama"
    THEN IF "OLLAMA_API_KEY" \in env
         THEN <<Connector("HTTP", "https://api.ollama.ai/v1", FALSE)>>
         ELSE <<>>
    ELSE IF Lower(name) = "openrouter"
    THEN IF "OPENROUTER_API_KEY" \in env
         THEN <<Connector("HTTP", "https://openrouter.ai/api/v1", FALSE)>>
         ELSE <<>>
    ELSE <<>>

\* UniversalAgentConnector._add_http_connector
add_http_connector(cs, http_config, env) ==
    LET looked == IF http_config.api_key
                  THEN [exc |-> "", value |-> TRUE]
                  ELSE getenv(http_config.api_key_env, env)
    IN IF looked.exc # ""
       THEN Raise(looked.exc, cs)
       ELSE IF http_config.base_url # NONE /\ looked.value
            THEN Ok(Append(cs, Connector("HTTP", http_config.base_url, FALSE)))
            ELSE Ok(cs)

\* UniversalAgentConnector._add_sdk_connector with SDKAgentConnector.__init__:
\* the client is set when the library of the sdk type can be imported
add_sdk_connector(cs, name, lib_ok) ==
    LET sdk_type == IF Lower(name) = "openrouter" THEN "openai" ELSE Lower(name)
    IN Ok(Append(cs, Connector("SDK", NONE, sdk_type \in {"ollama", "openai"} /\ lib_ok)))

\* UniversalAgentConnector._add_mcp_connector
add_mcp_connector(cs, server_url) ==
    IF server_url THEN Ok(Append(cs, Connector("MCP", NONE, FALSE))) ELSE Ok(cs)

\* UniversalAgentConnector._add_docker_connector
add_docker_connector(cs, docker_config) ==
    IF docker_config.container_name
    THEN IF docker_config.ports = "empty"
         THEN Raise("IndexError", cs)
         ELSE Ok(Append(cs, Connector("Docker", "http://localhost:11434", FALSE)))
    ELSE Ok(cs)

\* UniversalAgentConnector._add_local_connector
add_local_connector(cs, binary_path) ==
    IF binary_path
    THEN Ok(Append(cs, Connector("Local", "http://127.0.0.1:11434", FALSE)))
    ELSE Ok(cs)

\* the mode tests with the SDK connector added before the HTTP connector
add_by_mode_sdk_first(name, c, env, lib_ok) ==
    LET mode == c.mode
        r1 == IF mode = "sdk" \/ mode = "hybrid"
              THEN add_sdk_connector(<<>>, name, lib_ok) ELSE Ok(<<>>)
        r2 == IF mode = "http" \/ mode = "hybrid"
              THEN add_http_connector(r1.connectors, c.http, env) ELSE r1
        r3 == IF r2.exc # "" THEN r2
              ELSE IF mode = "mcp" \/ mode = "hybrid"
                   THEN add_mcp_connector(r2.connectors, c.mcp) ELSE r2
        r4 == IF r3.exc # "" THEN r3
              ELSE IF mode = "docker" \/ mode = "hybrid"
                   THEN add_docker_connector(r3.connectors, c.docker) ELSE r3
        r5 == IF r4.exc # "" THEN r4
              ELSE IF mode = "local" \/ mode = "hybrid"
                   THEN add_local_connector(r4.connectors, c.local) ELSE r4
    IN r5

\* the five mode tests of _initialize_connectors, in source order
add_by_mode(name, c, env, lib_ok) ==
    LET mode == c.mode
        r1 == IF mode = "http" \/ mode = "hybrid"
              THEN add_http_connector(<<>>, c.http, env) ELSE Ok(<<>>)
        r2 == IF r1.exc # "" THEN r1
              ELSE IF mode = "sdk" \/ mode = "hybrid"
                   THEN add_sdk_connector(r1.connectors, name, lib_ok) ELSE r1
        r3 == IF r2.exc # "" THEN r2
              ELSE IF mode = "mcp" \/ mode = "hybrid"
                   THEN add_mcp_connector(r2.connectors, c.mcp) ELSE r2
        r4 == IF r3.exc # "" THEN r3
              ELSE IF mode = "docker" \/ mode = "hybrid"
                   THEN add_docker_connector(r3.connectors, c.docker) ELSE r3
        r5 == IF r4.exc # "" THEN r4
              ELSE IF mode = "local" \/ mode = "hybrid"
                   THEN add_local_connector(r4.connectors, c.local) ELSE r4
    IN r5

\* _initialize_connectors that falls back to the environment also when the
\* agent is absent from the configuration or disabled
initialize_connectors_env_fallback(name, loaded, d, env, lib_ok) ==
    IF ~loaded
    THEN Ok(initialize_from_env(name, env))
    ELSE LET agent_config == getattr(get_config(d, env), Lower(name))
         IN CASE agent_config.kind = "none" -> Ok(initialize_from_env(name, env))
              [] agent_config.kind = "dict" ->
                    IF agent_config.truthy
                    THEN Raise("AttributeError", <<>>)
                    ELSE Ok(initialize_from_env(name, env))
              [] OTHER ->
                    IF ~agent_config.cfg.enabled
                    THEN Ok(initialize_from_env(name, env))
                    ELSE add_by_mode(name, agent_config.cfg, env, lib_ok)

\* UniversalAgentConnector._initialize_connectors
initialize_connectors(name, loaded, d, env, lib_ok) ==
    IF ~loaded
    THEN Ok(initialize_from_env(name, env))
    ELSE LET agent_config == getattr(get_config(d, env), Lower(name))
         IN CASE agent_config.kind = "none" -> Ok(<<>>)
              [] agent_config.kind = "dict" ->
                    IF agent_config.truthy
                    THEN Raise("AttributeError", <<>>)
                    ELSE Ok(<<>>)
              [] OTHER ->
                    IF ~agent_config.cfg.enabled
                    THEN Ok(<<>>)
                    ELSE add_by_mode(name, agent_config.cfg, env, lib_ok)

-----------------------------------------------------------------------------
(* utils/resilience.py *)

\* default of retry_with_backoff's max_attempts
max_attempts == 3

-----------------------------------------------------------------------------
(* agent_connectors.py: the connectors *)

Ret(v) == [raised |-> FALSE, value |-> v]

\* an exception leaving a probe
RaiseProbe == [raised |-> TRUE, value |-> FALSE]

\* an exception leaving a query
RaiseQuery == [raised |-> TRUE, value |-> NONE]

\* what the world can answer to a probe of connector c:
\*   HTTP    the GET raises (connection error, timeout) or is answered with a status
\*   Docker  `docker ps` cannot be run or times out, or completes with n = 1 when
\*           the container name occurs in its output and n = 0 when it does not
\*           (which includes a non-zero exit with empty output)
\*   Local   the binary cannot be run or times out, or exits with return code n
\*   SDK, MCP  nothing is asked of the world
ProbeOutcomes(c) ==
    CASE c.kind = "HTTP" ->
            {[ev |-> "exception", n |-> 0]}
            \cup {[ev |-> "response", n |-> s] : s \in {200, 401, 404, 500, 503}}
      [] c.kind = "Docker" ->
            {[ev |-> "exception", n |-> 0],
             [ev |-> "completed", n |-> 0], [ev |-> "completed", n |-> 1]}
      [] c.kind = "Local" ->
            {[ev |-> "exception", n |-> 0],
             [ev |-> "completed", n |-> 0], [ev |-> "completed", n |-> 1]}
      [] OTHER -> {[ev |-> "none", n |-> 0]}

\* the probe with `response.status_code == 200` as its test
HTTP_probe_try_200(o) ==
    IF o.ev = "exception" THEN RaiseProbe ELSE Ret(o.n = 200)

\* the body of the try block of HTTPAgentConnector.is_available
HTTP_probe_try(o) ==
    IF o.ev = "exception" THEN RaiseProbe ELSE Ret(o.n < 500)

\* HTTPAgentConnector.is_available
HTTP_is_available(o) ==
    LET r == HTTP_probe_try(o) IN IF r.raised THEN Ret(FALSE) ELSE r

\* SDKAgentConnector.is_available
SDK_is_available(c) == Ret(c.client)

\* MCPAgentConnector.is_available
MCP_is_available == Ret(FALSE)

\* the body of the try block of DockerAgentConnector.is_available
Docker_probe_try(o) ==
    IF o.ev = "exception" THEN RaiseProbe ELSE Ret(o.n = 1)

\* DockerAgentConnector.is_available
Docker_is_available(o) ==
    LET r == Docker_probe_try(o) IN IF r.raised THEN Ret(FALSE) ELSE r

\* the body of the try block of LocalAgentConnector.is_available
Local_probe_try(o) ==
    IF o.ev = "exception" THEN RaiseProbe ELSE Ret(o.n = 0)

\* LocalAgentConnector.is_available without its except clause
Local_is_available_unguarded(o) == Local_probe_try(o)

\* LocalAgentConnector.is_available
Local_is_available(o) ==
    LET r == Local_probe_try(o) IN IF r.raised THEN Ret(FALSE) ELSE r

\* connector.is_available(), dispatched on the class of the connector
is_available(c, o) ==
    CASE c.kind = "HTTP" -> HTTP_is_available(o)
      [] c.kind = "SDK" -> SDK_is_available(c)
      [] c.kind = "MCP" -> MCP_is_available
      [] c.kind = "Docker" -> Docker_is_available(o)
      [] OTHER -> Local_is_available(o)

\* texts a backend can put into the content of its answer; NONE is JSON null
Contents == {"", NONE, "text A", "text B"}

\* what the world can answer to a chat request: the call raises (connection
\* error, timeout), the status is an error, the body is no JSON of the expected
\* shape, or the answer carries a content
ChatOutcomes ==
    {[ev |-> e, content |-> ""] : e \in {"exception", "http_error", "bad_json"}}
    \cup {[ev |-> "ok", content |-> t] : t \in Contents}

QueryOutcomes(c) ==
    CASE c.kind = "MCP" -> {[ev |-> "none", content |-> ""]}
      [] c.kind = "SDK" ->
            IF c.client
            THEN {[ev |-> "exception", content |-> ""]}
                 \cup {[ev |-> "ok", content |-> t] : t \in Contents}
            ELSE {[ev |-> "none", content |-> ""]}
      [] OTHER -> ChatOutcomes

\* the body of the try block of HTTPAgentConnector.query
HTTP_query_try(o) ==
    IF o.ev = "ok" THEN Ret(o.content) ELSE RaiseQuery

\* HTTPAgentConnector.query without its except clause
HTTP_query_unguarded(o) == HTTP_query_try(o)

\* HTTPAgentConnector.query
HTTP_query(o) ==
    LET r == HTTP_query_try(o) IN IF r.raised THEN Ret("") ELSE r

\* the body of the try block of SDKAgentConnector.query
SDK_query_try(o) ==
    IF o.ev = "ok" THEN Ret(o.content) ELSE RaiseQuery

\* SDKAgentConnector.query
SDK_query(c, o) ==
    IF ~c.client
    THEN Ret("")
    ELSE LET r == SDK_query_try(o) IN IF r.raised THEN Ret("") ELSE r

\* MCPAgentConnector.query
MCP_query == Ret("")

\* connector.query(prompt, **kwargs), dispatched on the class of the connector;
\* Docker and Local delegate to the HTTP connector they hold
connector_query(c, o) ==
    CASE c.kind = "SDK" -> SDK_query(c, o)
      [] c.kind = "MCP" -> MCP_query
      [] OTHER -> HTTP_query(o)

-----------------------------------------------------------------------------
(* agent_connectors.py: UniversalAgentConnector.query *)

\* Python truth value of a returned text
Truthy(v) == v # "" /\ v # NONE

\* after_probe without the availability test: every connector is queried
after_probe_untested(i, r) ==
    IF r.raised THEN [pc |-> "raised", idx |-> i] ELSE [pc |-> "call", idx |-> i]

\* `if connector.is_available():` for the connector at position i
after_probe(i, r) ==
    IF r.raised THEN [pc |-> "raised", idx |-> i]
    ELSE IF r.value THEN [pc |-> "call", idx |-> i]
    ELSE [pc |-> "loop", idx |-> i + 1]

\* after_query without the early return: the loop goes on after a success
after_query_no_return(i, r) ==
    IF r.raised THEN [pc |-> "raised", idx |-> i, result |-> NONE]
    ELSE [pc |-> "loop", idx |-> i + 1, result |-> r.value]

\* after_query that asks the same connector again after an empty result
after_query_again(i, r) ==
    IF r.raised THEN [pc |-> "raised", idx |-> i, result |-> NONE]
    ELSE IF Truthy(r.value) THEN [pc |-> "returned", idx |-> i, result |-> r.value]
    ELSE [pc |-> "call", idx |-> i, result |-> NONE]

\* `result = connector.query(...)`, `if result: return result`
after_query(i, r) ==
    IF r.raised THEN [pc |-> "raised", idx |-> i, result |-> NONE]
    ELSE IF Truthy(r.value) THEN [pc |-> "returned", idx |-> i, result |-> r.value]
    ELSE [pc |-> "loop", idx |-> i + 1, result |-> NONE]

\* falling off the end of the function instead of returning ""
exhausted_result_none == NONE

\* the return after the loop
exhausted_result == ""

-----------------------------------------------------------------------------
(* Initial states: the process before UniversalAgentConnector(agent_name) *)

NoCall ==
    [op |-> NONE, i |-> 0, kind |-> NONE, ev |-> NONE, n |-> 0,
     raised |-> FALSE, ok |-> FALSE, text |-> ""]

Docs(name) ==
    [OLLAMA : IF Lower(name) = "ollama" THEN AgentDocs ELSE {DefaultAgentDoc},
     OPENROUTER : IF Lower(name) = "openrouter" THEN AgentDocs ELSE {DefaultAgentDoc},
     RESEARCH : IF Lower(name) = "research" THEN BOOLEAN ELSE {FALSE}]

Init ==
    /\ agent_name \in AgentNames
    /\ yaml_ok \in BOOLEAN
    /\ doc \in IF yaml_ok THEN Docs(agent_name) ELSE Docs(NONE)
    /\ environ \in SUBSET {KeyVar(agent_name), "CUSTOM_KEY"}
    /\ sdk_ok \in BOOLEAN
    /\ connectors = <<>>
    /\ exc = ""
    /\ pc = "start"
    /\ idx = 0
    /\ calls = <<>>
    /\ last = NoCall
    /\ prompt = NONE
    /\ result = NONE
    /\ available = FALSE
    /\ rt = Idle
    /\ vk = Idle
    /\ cl = Idle
    /\ gt = Idle
    /\ SideIdle

\* UniversalAgentConnector.__init__
Construct ==
    /\ pc = "start"
    /\ LET r == initialize_connectors(agent_name, yaml_ok, doc, environ, sdk_ok)
       IN /\ connectors' = r.connectors
          /\ exc' = r.exc
          /\ pc' = IF r.exc = "" THEN "ready" ELSE "ctor_raised"
    /\ UNCHANGED <<agent_name, yaml_ok, doc, environ, sdk_ok, idx, calls, last,
                   prompt, result, available, rt, vk, cl, gt, Side>>


Prompts == {"prompt 1", "prompt 2"}

\* what no step of query() or is_available() changes
Env == <<agent_name, yaml_ok, doc, environ, sdk_ok, rt, vk, cl, gt, Side>>

\* a caller invokes query(prompt) on the constructed resolver
QueryBegin ==
    /\ pc \in {"ready", "returned", "checked"}
    /\ \E p \in Prompts : prompt' = p
    /\ pc' = "loop"
    /\ idx' = 1
    /\ calls' = <<>>
    /\ last' = NoCall
    /\ result' = NONE
    /\ available' = FALSE
    /\ UNCHANGED <<Env, connectors, exc>>

\* loop head: the next connector of the chain is probed
Probe ==
    /\ pc = "loop"
    /\ idx <= Len(connectors)
    /\ \E o \in ProbeOutcomes(connectors[idx]) :
          LET c == connectors[idx]
              r == is_available(c, o)
              s == after_probe(idx, r)
          IN /\ last' = [op |-> "is_available", i |-> idx, kind |-> c.kind,
                         ev |-> o.ev, n |-> o.n, raised |-> r.raised,
                         ok |-> r.value, text |-> ""]
             /\ calls' = Append(calls, [op |-> "is_available", i |-> idx,
                                        ok |-> r.value, text |-> ""])
             /\ pc' = s.pc
             /\ idx' = s.idx
             /\ exc' = IF r.raised THEN "Exception" ELSE exc
    /\ UNCHANGED <<Env, connectors, prompt, result, available>>

\* the connector that reported itself available is queried
CallQuery ==
    /\ pc = "call"
    /\ \E o \in QueryOutcomes(connectors[idx]) :
          LET c == connectors[idx]
              r == connector_query(c, o)
              s == after_query(idx, r)
          IN /\ last' = [op |-> "query", i |-> idx, kind |-> c.kind,
                         ev |-> o.ev, n |-> 0, raised |-> r.raised,
                         ok |-> ~r.raised, text |-> r.value]
             /\ calls' = Append(calls, [op |-> "query", i |-> idx,
                                        ok |-> ~r.raised, text |-> r.value])
             /\ pc' = s.pc
             /\ idx' = s.idx
             /\ result' = s.result
             /\ exc' = IF r.raised THEN "Exception" ELSE exc
    /\ UNCHANGED <<Env, connectors, prompt, available>>

\* the loop has run off the end of the chain
Exhausted ==
    /\ pc = "loop"
    /\ idx > Len(connectors)
    /\ result' = exhausted_result
    /\ pc' = "returned"
    /\ UNCHANGED <<Env, connectors, exc, idx, calls, last, prompt, available>>

\* any(...) over a generator: what follows the probe of the connector at
\* position i
after_any_probe(i, r) ==
    IF r.raised THEN [pc |-> "raised", idx |-> i, value |-> FALSE]
    ELSE IF r.value THEN [pc |-> "checked", idx |-> i, value |-> TRUE]
    ELSE [pc |-> "any", idx |-> i + 1, value |-> FALSE]

\* a caller invokes is_available() on the constructed resolver
AvailableBegin ==
    /\ pc \in {"ready", "returned", "checked"}
    /\ pc' = "any"
    /\ idx' = 1
    /\ calls' = <<>>
    /\ last' = NoCall
    /\ result' = NONE
    /\ prompt' = NONE
    /\ available' = FALSE
    /\ UNCHANGED <<Env, connectors, exc>>

\* any() draws the next connector and probes it
AvailableProbe ==
    /\ pc = "any"
    /\ idx <= Len(connectors)
    /\ \E o \in ProbeOutcomes(connectors[idx]) :
          LET c == connectors[idx]
              r == is_available(c, o)
              s == after_any_probe(idx, r)
          IN /\ last' = [op |-> "any", i |-> idx, kind |-> c.kind,
                         ev |-> o.ev, n |-> o.n, raised |-> r.raised,
                         ok |-> r.value, text |-> ""]
             /\ calls' = Append(calls, [op |-> "any", i |-> idx,
                                        ok |-> r.value, text |-> ""])
             /\ pc' = s.pc
             /\ idx' = s.idx
             /\ available' = s.value
             /\ exc' = IF r.raised THEN "Exception" ELSE exc
    /\ UNCHANGED <<Env, connectors, prompt, result>>

\* any() has run off the end of the chain
AvailableExhausted ==
    /\ pc = "any"
    /\ idx > Len(connectors)
    /\ available' = FALSE
    /\ pc' = "checked"
    /\ UNCHANGED <<Env, connectors, exc, idx, calls, last, prompt, result>>

Next ==
    \/ Construct
    \/ QueryBegin
    \/ Probe
    \/ CallQuery
    \/ Exhausted
    \/ AvailableBegin
    \/ AvailableProbe
    \/ AvailableExhausted

Spec == Init /\ [][Next]_vars

-----------------------------------------------------------------------------
(* Properties of UniversalAgentConnector.query *)

InQuery == pc \in {"loop", "call", "returned", "raised"}

IsProbe(e) == e.op = "is_available"

IsQuery(e) == e.op = "query"

\* C1: within one query() call the connectors are probed and queried strictly in
\* construction order (position 1 first, each next probe at the next position, a
\* query only at the position just probed), the call returns the text of the
\* first connector that was available and answered a non-empty text, and
\* nothing is probed or queried after that connector.
C1_FirstSuccessInChainOrder ==
    InQuery =>
        /\ \A k \in 1..Len(calls) :
              /\ calls[k].i \in 1..Len(connectors)
              /\ k = 1 => IsProbe(calls[k]) /\ calls[k].i = 1
              /\ k > 1 /\ IsProbe(calls[k]) => calls[k].i = calls[k-1].i + 1
              /\ k > 1 /\ IsQuery(calls[k]) =>
                    IsProbe(calls[k-1]) /\ calls[k-1].i = calls[k].i
              /\ IsQuery(calls[k]) /\ Truthy(calls[k].text) =>
                    /\ k = Len(calls)
                    /\ pc = "returned"
                    /\ result = calls[k].text
        /\ pc = "returned" /\ Truthy(result) =>
              /\ calls # <<>>
              /\ IsQuery(calls[Len(calls)])
              /\ calls[Len(calls)].text = result
        /\ pc = "returned" /\ ~Truthy(result) =>
              \A j \in 1..Len(connectors) :
                  \E k \in 1..Len(calls) : IsProbe(calls[k]) /\ calls[k].i = j

\* a call that returned the text of the third connector of its chain after the
\* first was unavailable and the second answered nothing
C1_Witness ==
    /\ pc = "returned"
    /\ Truthy(result)
    /\ Len(connectors) >= 4
    /\ Len(calls) = 5
    /\ calls[1].ok = FALSE
    /\ calls[5].i = 3

\* C2: query() never raises, and when the chain is empty or no connector was
\* both available and answered a non-empty text it returns "".
C2_NeverRaisesEmptyOnExhaustion ==
    /\ pc # "raised"
    /\ InQuery => exc = ""
    /\ (pc = "returned"
        /\ \A k \in 1..Len(calls) : ~(IsQuery(calls[k]) /\ Truthy(calls[k].text)))
       => result = ""

\* a call on a chain of three or more connectors that found some unavailable,
\* got an empty answer from another and returned ""
C2_Witness ==
    /\ pc = "returned"
    /\ result = ""
    /\ Len(connectors) >= 3
    /\ \E k \in 1..Len(calls) : IsProbe(calls[k]) /\ ~calls[k].ok
    /\ \E k \in 1..Len(calls) : IsQuery(calls[k]) /\ calls[k].text = ""

\* a call on the empty chain returned ""
C2_WitnessEmptyChain ==
    pc = "returned" /\ connectors = <<>> /\ result = ""

\* the resolver has moved on from the connector it called last: it stands at
\* the next position of the loop or, past the end of the chain, has returned ""
Advanced ==
    /\ idx = last.i + 1
    /\ \/ pc = "loop"
       \/ pc = "returned" /\ last.i = Len(connectors) /\ result = ""

\* the transport outcomes with which the request of a query() raises
Failures == {"exception", "http_error", "bad_json"}

C3_WitnessRaised ==
    IsQuery(last) /\ last.ev = "exception" /\ last.kind = "HTTP" /\ pc = "loop"

\* C4: query() of a connector is invoked only right after that connector's own
\* is_available() returned true in the same call; a connector whose probe
\* returned false is never queried, and a text returned after such a probe is
\* that of a later connector whose probe returned true.
C4_QueryOnlyAfterTrueProbe ==
    InQuery =>
        /\ \A k \in 1..Len(calls) :
              IsQuery(calls[k]) =>
                  /\ k > 1
                  /\ IsProbe(calls[k-1])
                  /\ calls[k-1].i = calls[k].i
                  /\ calls[k-1].ok
        /\ \A k \in 1..Len(calls) :
              IsProbe(calls[k]) /\ ~calls[k].ok =>
                  /\ \A m \in 1..Len(calls) : IsQuery(calls[m]) => calls[m].i # calls[k].i
                  /\ pc = "returned" /\ Truthy(result) =>
                        \E m \in 1..Len(calls) :
                            /\ IsQuery(calls[m])
                            /\ calls[m].text = result
                            /\ calls[m].i > calls[k].i
                            /\ calls[m-1].ok
        /\ pc = "call" => IsProbe(last) /\ last.ok /\ last.i = idx

\* the HTTP connector of a chain was probed unavailable and not queried, and the
\* call returned the SDK connector's text
C4_Witness ==
    /\ pc = "returned"
    /\ Len(calls) = 3
    /\ connectors[1].kind = "HTTP"
    /\ connectors[2].kind = "SDK"
    /\ ~calls[1].ok
    /\ calls[3].i = 2
    /\ result = calls[3].text
    /\ Truthy(result)

\* number of times query() of the connector at position j was invoked
QueryCount(j) == Cardinality({k \in 1..Len(calls) : IsQuery(calls[k]) /\ calls[k].i = j})

\* number of times is_available() of the connector at position j was invoked
ProbeCount(j) == Cardinality({k \in 1..Len(calls) : IsProbe(calls[k]) /\ calls[k].i = j})

\* C5 as claimed: a connector whose query failed has been tried max_attempts
\* times by the time the resolver has moved past it.
C5_RetriedBeforeAdvancing ==
    InQuery =>
        \A k \in 1..Len(calls) :
            (IsQuery(calls[k]) /\ ~Truthy(calls[k].text) /\ idx > calls[k].i)
                => QueryCount(calls[k].i) = max_attempts

\* C5 (amended): within one query() call every connector is probed at most once
\* and queried at most once: nothing is retried, and after one failed or empty
\* query the resolver stands at the next connector.
C5_EachConnectorTriedOnce ==
    InQuery =>
        /\ \A j \in 1..Len(connectors) : ProbeCount(j) <= 1 /\ QueryCount(j) <= 1
        /\ (IsQuery(last) /\ ~Truthy(last.text)) => idx = last.i + 1

\* the query of a connector failed once and the resolver is at the next one
C5_Witness ==
    /\ pc = "loop"
    /\ IsQuery(last)
    /\ last.ev \in Failures
    /\ QueryCount(last.i) = 1
    /\ idx = last.i + 1
    /\ idx <= Len(connectors)

-----------------------------------------------------------------------------
(* Properties of the availability probes *)

\* C6: is_available() of each of the five connector classes never raises; when
\* the probe cannot be carried out (the request raises or times out, docker or
\* the binary is missing) or the command fails (non-zero exit of the binary,
\* container not listed) it returns false, and query() sees no exception.
C6_ProbesNeverRaise ==
    IsProbe(last) =>
        /\ ~last.raised
        /\ pc # "raised"
        /\ exc = ""
        /\ last.ev = "exception" => ~last.ok
        /\ (last.kind = "Local" /\ last.ev = "completed" /\ last.n # 0) => ~last.ok
        /\ (last.kind = "Docker" /\ last.ev = "completed" /\ last.n = 0) => ~last.ok
        /\ last.kind = "MCP" => ~last.ok
        /\ ~last.ok => Advanced

\* the binary of a Local connector could not be run and the probe returned false
C6_Witness ==
    /\ IsProbe(last)
    /\ last.kind = "Local"
    /\ last.ev = "exception"
    /\ ~last.ok
    /\ pc = "loop"

\* the probes of the other four classes that end in false
C6_WitnessHTTP == IsProbe(last) /\ last.kind = "HTTP" /\ last.ev = "exception" /\ ~last.ok

C6_WitnessDocker == IsProbe(last) /\ last.kind = "Docker" /\ last.ev = "exception" /\ ~last.ok

C6_WitnessSDK == IsProbe(last) /\ last.kind = "SDK" /\ ~last.ok

C6_WitnessMCP == IsProbe(last) /\ last.kind = "MCP" /\ ~last.ok

\* C7 as claimed: a probe answered with a non-success status (404 among them)
\* returns false and the resolver goes on to the next connector.
C7_NonSuccessStatusUnavailable ==
    (IsProbe(last) /\ last.kind = "HTTP" /\ last.ev = "response" /\ last.n >= 400)
        => (~last.ok /\ Advanced)

\* C7 (amended): HTTPAgentConnector.is_available() returns false exactly when
\* the GET raises or is answered with a status of 500 or more; a 404 (any status
\* below 500) yields true, and the resolver then queries the HTTP connector
\* before any later one.
C7_AvailableBelow500 ==
    (IsProbe(last) /\ last.kind = "HTTP") =>
        /\ last.ok <=> (last.ev = "response" /\ last.n < 500)
        /\ last.ok => (pc = "call" /\ idx = last.i)
        /\ ~last.ok => Advanced

\* the probe of the HTTP connector of a chain that also holds an SDK connector
\* was answered with 404 and the HTTP connector is about to be queried
C7_Witness ==
    /\ IsProbe(last)
    /\ last.kind = "HTTP"
    /\ last.n = 404
    /\ last.ok
    /\ pc = "call"
    /\ Len(connectors) >= 2
    /\ connectors[2].kind = "SDK"

-----------------------------------------------------------------------------
(* Properties of the construction of the chain *)

\* the configuration record of the agent, as _initialize_connectors looks it up
AgentConfigOf == getattr(get_config(doc, environ), Lower(agent_name))

EnabledAgent == yaml_ok /\ AgentConfigOf.kind = "agent" /\ AgentConfigOf.cfg.enabled

\* position of a transport family in the fixed order
Pos(kind) == CHOOSE k \in 1..Len(Kinds) : Kinds[k] = kind

\* the family a single named mode stands for
Family(mode) ==
    CASE mode = "http" -> "HTTP"
      [] mode = "sdk" -> "SDK"
      [] mode = "mcp" -> "MCP"
      [] mode = "docker" -> "Docker"
      [] mode = "local" -> "Local"
      [] OTHER -> NONE

\* C8: for an enabled agent the chain is determined by the mode: under hybrid a
\* subsequence of HTTP, SDK, MCP, Docker, Local in that order with at most one
\* connector per family; under a single named mode at most one connector, of the
\* named family; under any other mode value the empty chain.
C8_ChainFollowsMode ==
    (pc # "start" /\ EnabledAgent) =>
        LET mode == AgentConfigOf.cfg.mode
        IN /\ \A k \in 1..Len(connectors) : connectors[k].kind \in {Kinds[j] : j \in 1..Len(Kinds)}
           /\ mode = "hybrid" =>
                 \A j, k \in 1..Len(connectors) :
                     j < k => Pos(connectors[j].kind) < Pos(connectors[k].kind)
           /\ Family(mode) # NONE =>
                 /\ Len(connectors) <= 1
                 /\ \A k \in 1..Len(connectors) : connectors[k].kind = Family(mode)
           /\ (mode # "hybrid" /\ Family(mode) = NONE) => connectors = <<>>

\* a hybrid agent whose chain holds all five families
C8_Witness ==
    /\ pc = "ready"
    /\ EnabledAgent
    /\ AgentConfigOf.cfg.mode = "hybrid"
    /\ Len(connectors) = 5

\* a single-mode agent with its one connector, and an agent of unknown mode
C8_WitnessSingle ==
    /\ pc = "ready"
    /\ EnabledAgent
    /\ AgentConfigOf.cfg.mode = "docker"
    /\ Len(connectors) = 1

C8_WitnessOtherMode ==
    pc = "ready" /\ EnabledAgent /\ AgentConfigOf.cfg.mode = "auto"

\* C9: building the chain never raises because a field is missing from a
\* transport's sub-map (the transport is skipped instead); in particular an
\* agent in http mode with a base_url and no API key anywhere is constructed
\* with no HTTP connector and its query() returns "".
C9_MissingFieldsNeverRaise ==
    (EnabledAgent /\ AgentConfigOf.cfg.docker.ports = "missing") =>
        /\ pc # "ctor_raised"
        /\ exc = ""
        /\ (/\ pc # "start"
            /\ AgentConfigOf.cfg.mode = "http"
            /\ AgentConfigOf.cfg.http.base_url # NONE
            /\ ~AgentConfigOf.cfg.http.api_key
            /\ AgentConfigOf.cfg.http.api_key_env = NONE)
           => (connectors = <<>> /\ (pc = "returned" => result = ""))

\* f"{AGENT}_API_KEY" is set in the environment
KeySet == KeyVar(agent_name) \in environ

\* the hard-coded default endpoint of an agent
DefaultEndpoint(name) ==
    IF Lower(name) = "ollama" THEN "https://api.ollama.ai/v1"
    ELSE IF Lower(name) = "openrouter" THEN "https://openrouter.ai/api/v1"
    ELSE NONE

\* the environment-variable-only strategy: one HTTP connector against the
\* default endpoint when the key is set, nothing otherwise
EnvOnlyChain ==
    IF KeySet /\ DefaultEndpoint(agent_name) # NONE
    THEN /\ Len(connectors) = 1
         /\ connectors[1].kind = "HTTP"
         /\ connectors[1].base_url = DefaultEndpoint(agent_name)
    ELSE connectors = <<>>

AbsentOrDisabled ==
    \/ AgentConfigOf.kind = "none"
    \/ AgentConfigOf.kind = "agent" /\ ~AgentConfigOf.cfg.enabled

\* C10 as claimed: for an agent that is absent from the loaded configuration or
\* disabled, the chain is the environment-variable-only one.
C10_AbsentOrDisabledUsesEnv ==
    (pc # "start" /\ yaml_ok /\ AbsentOrDisabled) => EnvOnlyChain

\* C10 (amended): the environment-variable-only strategy is used when no
\* configuration object could be obtained at all: the chain is then one HTTP
\* connector against the hard-coded default endpoint of ollama or openrouter if
\* {AGENT}_API_KEY is set, and empty otherwise.  With a loaded configuration an
\* agent whose lower-cased name is no field of it, or whose record has
\* enabled=false, gets the empty chain whatever the environment holds.  The
\* agent name is matched case-insensitively.
C10_EnvOnlyWithoutConfig ==
    pc # "start" =>
        /\ ~yaml_ok => (pc # "ctor_raised" /\ EnvOnlyChain)
        /\ (yaml_ok /\ AbsentOrDisabled) => (pc # "ctor_raised" /\ connectors = <<>>)
        /\ (agent_name = "OpenRouter" /\ EnabledAgent /\ AgentConfigOf.cfg.mode = "sdk")
              => (Len(connectors) = 1 /\ connectors[1].kind = "SDK")

\* a disabled agent whose key is set in the environment, constructed
C10_Witness ==
    /\ pc = "ready"
    /\ yaml_ok
    /\ AgentConfigOf.kind = "agent"
    /\ ~AgentConfigOf.cfg.enabled
    /\ KeySet
    /\ connectors = <<>>

\* no configuration object, key set: the one HTTP connector of the fallback
C10_WitnessFallback ==
    /\ pc = "ready"
    /\ ~yaml_ok
    /\ agent_name = "OpenRouter"
    /\ Len(connectors) = 1

-----------------------------------------------------------------------------
(* Properties of UniversalAgentConnector.is_available *)

\* the required fields of at least one transport are present
SomeTransportPresent ==
    LET c == AgentConfigOf.cfg
    IN \/ c.http.base_url # NONE /\ (c.http.api_key \/ c.http.api_key_env \in environ)
       \/ c.mcp
       \/ c.docker.container_name
       \/ c.local

\* C11: for an agent in hybrid mode with the required fields of at least one
\* transport present the chain is constructed without error, and
\* is_available() is true if and only if a connector of the chain reported
\* is_available() true.
C11_HybridBuiltAvailableIffAny ==
    (/\ pc # "start"
     /\ EnabledAgent
     /\ AgentConfigOf.cfg.mode = "hybrid"
     /\ AgentConfigOf.cfg.docker.ports = "missing"
     /\ SomeTransportPresent) =>
        /\ pc # "ctor_raised"
        /\ pc = "checked" =>
              (available <=> \E k \in 1..Len(calls) : calls[k].op = "any" /\ calls[k].ok)

\* what holds of is_available() on every chain that was constructed: it is
\* true exactly when one of the probes it made returned true, the probes are
\* made in chain order and stop at the first true one
AvailableIffAnyProbeTrue ==
    /\ pc = "checked" =>
          /\ available <=> \E k \in 1..Len(calls) : calls[k].ok
          /\ \A k \in 1..Len(calls) : calls[k].i = k /\ (calls[k].ok => k = Len(calls))
          /\ ~available => Len(calls) = Len(connectors)
    /\ pc = "any" => \A k \in 1..Len(calls) : ~calls[k].ok

\* is_available() returned true on a hybrid chain after two false probes
AvailableWitness ==
    /\ pc = "checked"
    /\ available
    /\ Len(calls) = 3
    /\ EnabledAgent
    /\ AgentConfigOf.cfg.mode = "hybrid"


-----------------------------------------------------------------------------
(* utils/resilience.py: retry_with_backoff *)

\* no resolver is constructed while another component is exercised
ResolverIdle ==
    /\ agent_name = "ollama"
    /\ yaml_ok = FALSE
    /\ doc \in Docs(NONE)
    /\ environ = {}
    /\ sdk_ok = FALSE
    /\ connectors = <<>>
    /\ exc = ""
    /\ pc = "start"
    /\ idx = 0
    /\ calls = <<>>
    /\ last = NoCall
    /\ prompt = NONE
    /\ result = NONE
    /\ available = FALSE

\* largest max_attempts a decorator is given
MaxAttempts == 4

\* the decorator's parameters; delays in whole seconds
RetryParams ==
    [max_attempts : 0..MaxAttempts,
     base_delay : {0, 1, 2},
     max_delay : {0, 3, 30},
     exponential_base : {1, 2, 3}]

\* what one invocation of the wrapped function does: it returns, raises an
\* exception of a type in `exceptions`, or raises one of another type
AttemptOutcomes == {"return", "caught", "other"}

\* exponential_base ** e
RECURSIVE Pow(_, _)
Pow(b, e) == IF e = 0 THEN 1 ELSE b * Pow(b, e - 1)

Min(a, b) == IF a <= b THEN a ELSE b

RECURSIVE SumSeq(_)
SumSeq(q) == IF q = <<>> THEN 0 ELSE Head(q) + SumSeq(Tail(q))

backoff_delay_uncapped(p, attempt) ==
    p.base_delay * Pow(p.exponential_base, attempt - 1)

\* delay = min(base_delay * (exponential_base ** (attempt - 1)), max_delay)
backoff_delay(p, attempt) ==
    Min(p.base_delay * Pow(p.exponential_base, attempt - 1), p.max_delay)

on_caught_sleep_then_raise(r, attempt) ==
    [r EXCEPT !.sleeps = Append(@, backoff_delay(r.params, attempt)),
              !.pc = IF attempt = r.params.max_attempts THEN "raised" ELSE "loop",
              !.exc = IF attempt = r.params.max_attempts THEN "caught" ELSE @,
              !.attempt = IF attempt = r.params.max_attempts THEN @ ELSE attempt + 1]

\* the except clause of the wrapper: the last attempt re-raises, an earlier
\* one sleeps and lets the loop go on
on_caught(r, attempt) ==
    IF attempt = r.params.max_attempts
    THEN [r EXCEPT !.pc = "raised", !.exc = "caught"]
    ELSE [r EXCEPT !.sleeps = Append(@, backoff_delay(r.params, attempt)),
                   !.attempt = attempt + 1]

\* one iteration of `for attempt in range(1, max_attempts + 1)`
retry_iteration(r, o) ==
    LET called == [r EXCEPT !.invocations = @ + 1, !.outs = Append(@, o)]
    IN CASE o = "return" -> [called EXCEPT !.pc = "returned", !.result = "value"]
         [] o = "other" -> [called EXCEPT !.pc = "raised", !.exc = "other"]
         [] o = "caught" -> on_caught(called, r.attempt)

\* a decorated function is called
RetryCall ==
    /\ rt.pc \in {"idle", "returned", "raised"}
    /\ \E p \in RetryParams :
          rt' = [pc |-> "loop", params |-> p, attempt |-> 1, invocations |-> 0,
                 outs |-> <<>>, sleeps |-> <<>>, result |-> NONE, exc |-> ""]
    /\ UNCHANGED <<ResolverVars, Side, vk, cl, gt>>

\* the loop body runs once
RetryAttempt ==
    /\ rt.pc = "loop"
    /\ rt.attempt <= rt.params.max_attempts
    /\ \E o \in AttemptOutcomes : rt' = retry_iteration(rt, o)
    /\ UNCHANGED <<ResolverVars, Side, vk, cl, gt>>

\* the loop has ended without a return or a raise: `return None`
RetryFallThrough ==
    /\ rt.pc = "loop"
    /\ rt.attempt > rt.params.max_attempts
    /\ rt' = [rt EXCEPT !.pc = "returned", !.result = NONE]
    /\ UNCHANGED <<ResolverVars, Side, vk, cl, gt>>

InitRetry ==
    /\ ResolverIdle
    /\ rt = Idle
    /\ vk = Idle
    /\ cl = Idle
    /\ gt = Idle
    /\ SideIdle

NextRetry == RetryCall \/ RetryAttempt \/ RetryFallThrough

SpecRetry == InitRetry /\ [][NextRetry]_vars

-----------------------------------------------------------------------------
(* Properties of retry_with_backoff *)

RetryActive == rt.pc \in {"loop", "returned", "raised"}

\* min(base_delay * exponential_base^(i-1), max_delay), as the schedule is
\* documented
ScheduledDelay(p, i) ==
    LET raw == p.base_delay * Pow(p.exponential_base, i - 1)
    IN IF raw < p.max_delay THEN raw ELSE p.max_delay

\* the sum of the scheduled delays for i in 1..n
RECURSIVE ScheduleSum(_, _)
ScheduleSum(p, n) ==
    IF n <= 0 THEN 0 ELSE ScheduledDelay(p, n) + ScheduleSum(p, n - 1)

\* C16: the underlying function is invoked at most max_attempts times and the
\* total time slept is at most the sum over i in 1..max_attempts-1 of
\* min(base_delay * exponential_base^(i-1), max_delay).
C16_AttemptsAndSleepBounded ==
    RetryActive =>
        /\ rt.invocations <= rt.params.max_attempts
        /\ SumSeq(rt.sleeps) <= ScheduleSum(rt.params, rt.params.max_attempts - 1)

\* every attempt failed with a caught exception, the cap was reached, and the
\* whole budget of attempts and of sleep was used
C16_Witness ==
    /\ rt.pc = "raised"
    /\ rt.exc = "caught"
    /\ rt.params.max_attempts = MaxAttempts
    /\ rt.invocations = MaxAttempts
    /\ rt.params.base_delay * Pow(rt.params.exponential_base, 2) > rt.params.max_delay
    /\ rt.params.max_delay > 0
    /\ SumSeq(rt.sleeps) = ScheduleSum(rt.params, MaxAttempts - 1)

\* C17: with max_attempts >= 1, the k-th failed attempt with k < max_attempts
\* is followed by a sleep of exactly min(base_delay * exponential_base^(k-1),
\* max_delay) and another attempt; a successful attempt returns its result at
\* once; the failure of attempt max_attempts is re-raised without a sleep and
\* no value is returned.  A failed attempt is one whose exception is of a
\* type in `exceptions`; any other exception leaves the wrapper at once.
C17_RetrySchedule ==
    (RetryActive /\ rt.params.max_attempts >= 1) =>
        LET n == Len(rt.outs)
        IN /\ rt.invocations = n
           /\ \A k \in 1..Len(rt.sleeps) :
                 /\ rt.sleeps[k] = ScheduledDelay(rt.params, k)
                 /\ rt.outs[k] = "caught"
                 /\ k < rt.params.max_attempts
           /\ \A k \in 1..(n - 1) : rt.outs[k] = "caught"
           /\ rt.pc = "loop" =>
                 /\ Len(rt.sleeps) = n
                 /\ rt.attempt = n + 1
                 /\ n < rt.params.max_attempts
           /\ rt.pc = "returned" =>
                 /\ n >= 1
                 /\ rt.outs[n] = "return"
                 /\ rt.result = "value"
                 /\ Len(rt.sleeps) = n - 1
           /\ rt.pc = "raised" =>
                 /\ n >= 1
                 /\ rt.outs[n] \in {"caught", "other"}
                 /\ rt.exc = rt.outs[n]
                 /\ rt.outs[n] = "caught" => n = rt.params.max_attempts
                 /\ Len(rt.sleeps) = n - 1
                 /\ rt.result = NONE

\* two failures were slept on, the second at the cap, and the third and last
\* attempt failed and was re-raised
C17_Witness ==
    /\ rt.pc = "raised"
    /\ rt.exc = "caught"
    /\ rt.params.max_attempts = 3
    /\ rt.outs = <<"caught", "caught", "caught">>
    /\ rt.sleeps = <<2, 3>>

\* a call that succeeded on its second attempt, after one sleep
RetriedThenReturned ==
    /\ rt.pc = "returned"
    /\ rt.outs = <<"caught", "return">>
    /\ Len(rt.sleeps) = 1


-----------------------------------------------------------------------------
(* utils/resilience.py: validate_api_key *)

\* a string is a sequence of one-character strings
Str_your == <<"y", "o", "u", "r">>
Str_YOUR == <<"Y", "O", "U", "R">>
Str_key == <<"k", "e", "y">>
Str_ukey == <<"_", "k", "e", "y">>
Str_xxx == <<"x", "x", "x">>
Str_XxX == <<"X", "x", "X">>
Str_000 == <<"0", "0", "0">>
Str_replace == <<"r", "e", "p", "l", "a", "c", "e">>
Str_me == <<"m", "e">>
Str_ume == <<"_", "m", "e">>
Str_example == <<"e", "x", "a", "m", "p", "l", "e">>
Str_placeholder == <<"p", "l", "a", "c", "e", "h", "o", "l", "d", "e", "r">>
Str_filler == <<"s", "k", ".", "A", "b", "9", "7", "k", "e", "y">>
Str_api == <<"a", "p", "i">>
Str_here == <<"h", "e", "r", "e">>

\* the placeholder of the self-test, "your-api-key-here"
YourApiKeyHere == Str_your \o <<"-">> \o Str_api \o <<"-">> \o Str_key \o <<"-">> \o Str_here

\* the pieces the keys are put together from
Tokens ==
    {Str_your, Str_your \o <<"-">>, Str_YOUR \o <<"_">>, Str_key, Str_ukey,
     Str_xxx, Str_XxX, Str_000, Str_replace, Str_ume, Str_example,
     Str_placeholder, Str_filler, <<"-">>, <<"_">>, <<"!">>, <<"\n">>}

\* most tokens in a key
MaxTokens == 2

RECURSIVE Join(_)
Join(ts) == IF ts = <<>> THEN <<>> ELSE Head(ts) \o Join(Tail(ts))

\* the keys a caller passes: the empty string, the self-test's placeholder
\* and every concatenation of tokens
Keys ==
    {YourApiKeyHere} \cup
    { Join(ts) : ts \in UNION { [1..n -> Tokens] : n \in 0..MaxTokens } }

KeyNames == {"API_KEY", "TEST_KEY"}

MinLengths == {0, 5, 20}

\* str.lower(), one character
lower_char(c) ==
    CASE c = "Y" -> "y" [] c = "O" -> "o" [] c = "U" -> "u" [] c = "R" -> "r"
      [] c = "X" -> "x" [] c = "A" -> "a" [] c = "E" -> "e" [] c = "S" -> "s"
      [] c = "T" -> "t" [] OTHER -> c

\* str.lower()
lower(str) == [i \in 1..Len(str) |-> lower_char(str[i])]

\* sub occurs in str at position i
At(str, sub, i) ==
    /\ i >= 1
    /\ i + Len(sub) - 1 <= Len(str)
    /\ SubSeq(str, i, i + Len(sub) - 1) = sub

\* re.search of a literal
Contains(str, sub) == \E i \in 1..Len(str) : At(str, sub, i)

DashOrUnderscore == {"-", "_"}

\* re.search(r'your[-_].*[-_]key', str): `.` matches no newline
search_your_key(str) ==
    \E i \in 1..Len(str) : \E j \in (i + 5)..Len(str) :
        /\ At(str, Str_your, i)
        /\ str[i + 4] \in DashOrUnderscore
        /\ str[j] \in DashOrUnderscore
        /\ At(str, Str_key, j + 1)
        /\ \A k \in (i + 5)..(j - 1) : str[k] # "\n"

\* re.search(r'word[-_]tail', str)
search_joined(str, word, tail) ==
    \E i \in 1..Len(str) :
        /\ At(str, word, i)
        /\ i + Len(word) <= Len(str)
        /\ str[i + Len(word)] \in DashOrUnderscore
        /\ At(str, tail, i + Len(word) + 1)

is_placeholder_cased(key) ==
    \/ search_your_key(key)
    \/ search_joined(key, Str_replace, Str_me)
    \/ search_joined(key, Str_example, Str_key)
    \/ Contains(key, Str_placeholder)
    \/ Contains(key, Str_xxx)
    \/ Contains(key, Str_000)

\* any(re.search(pattern, key.lower()) for pattern in placeholder_patterns)
is_placeholder(key) ==
    LET k == lower(key)
    IN \/ search_your_key(k)
       \/ search_joined(k, Str_replace, Str_me)
       \/ search_joined(k, Str_example, Str_key)
       \/ Contains(k, Str_placeholder)
       \/ Contains(k, Str_xxx)
       \/ Contains(k, Str_000)

\* the class [a-zA-Z0-9_\-\.] over the characters in use
KeyChars ==
    {"y", "o", "u", "r", "Y", "O", "U", "R", "k", "e", "x", "X", "0", "p", "l",
     "a", "c", "m", "h", "d", "s", "A", "b", "9", "7", "i", ".", "-", "_"}

\* re.match(r'^[a-zA-Z0-9_\-\.]+$', key): `$` also matches before a final
\* newline
match_format(key) ==
    LET body == IF Len(key) >= 1 /\ key[Len(key)] = "\n"
                THEN SubSeq(key, 1, Len(key) - 1) ELSE key
    IN Len(body) >= 1 /\ \A i \in 1..Len(body) : body[i] \in KeyChars

Returns(v) == [ret |-> v, exc |-> "", msg |-> <<>>]

ValueError(key_name, text) ==
    [ret |-> NONE, exc |-> "ValueError", msg |-> <<key_name, text>>]

on_placeholder_accepted(key_name, allow_placeholder) ==
    IF ~allow_placeholder
    THEN ValueError(key_name, "appears to be a placeholder value")
    ELSE Returns("True")

\* the branch taken for a key that matches a placeholder pattern
on_placeholder(key_name, allow_placeholder) ==
    IF ~allow_placeholder
    THEN ValueError(key_name, "appears to be a placeholder value")
    ELSE Returns("False")

validate_api_key(key, key_name, min_length, allow_placeholder) ==
    IF key = <<>> THEN ValueError(key_name, "is not set")
    ELSE IF is_placeholder(key) THEN on_placeholder(key_name, allow_placeholder)
    ELSE IF Len(key) < min_length THEN ValueError(key_name, "is too short")
    ELSE IF ~match_format(key) THEN ValueError(key_name, "contains invalid characters")
    ELSE Returns("True")

\* the verdict of a call: the key is accepted when the call returns True
Accepted(r) == r.ret = "True"

\* a caller validates the key at hand
ValidateCall ==
    /\ vk.pc = "new"
    /\ \E key_name \in KeyNames, allow_placeholder \in BOOLEAN :
          LET r == validate_api_key(vk.key, key_name, vk.min_length, allow_placeholder)
          IN vk' = [vk EXCEPT !.pc = "done", !.key_name = key_name,
                              !.allow_placeholder = allow_placeholder,
                              !.r = r, !.first = Accepted(r), !.n = 1]
    /\ UNCHANGED <<ResolverVars, Side, rt, cl, gt>>

\* the same key is validated again against the same min_length, under
\* another name or with the other allow_placeholder
ValidateAgain ==
    /\ vk.pc = "done"
    /\ \E key_name \in KeyNames, allow_placeholder \in BOOLEAN :
          vk' = [vk EXCEPT !.key_name = key_name,
                           !.allow_placeholder = allow_placeholder,
                           !.r = validate_api_key(vk.key, key_name, vk.min_length,
                                                  allow_placeholder),
                           !.n = 2]
    /\ UNCHANGED <<ResolverVars, Side, rt, cl, gt>>

\* the key and the minimum length are the caller's
InitValidate ==
    /\ ResolverIdle
    /\ rt = Idle
    /\ \E key \in Keys, min_length \in MinLengths :
          vk = [pc |-> "new", key |-> key, key_name |-> NONE,
                min_length |-> min_length, allow_placeholder |-> FALSE,
                r |-> Returns(NONE), first |-> FALSE, n |-> 0]
    /\ cl = Idle
    /\ gt = Idle
    /\ SideIdle

NextValidate == ValidateCall \/ ValidateAgain

SpecValidate == InitValidate /\ [][NextValidate]_vars


-----------------------------------------------------------------------------
(* Properties of validate_api_key *)

Validated == vk.pc = "done"

\* C18: the verdict of validate_api_key depends on (key, min_length) alone; a
\* key shorter than min_length is never accepted, and "your-api-key-here" is
\* never accepted, whatever key_name, min_length and allow_placeholder are.
C18_VerdictPureShortAndLiteralRejected ==
    Validated =>
        /\ Accepted(vk.r) = vk.first
        /\ Len(vk.key) < vk.min_length => ~Accepted(vk.r)
        /\ vk.key = YourApiKeyHere => ~Accepted(vk.r)

\* "your-api-key-here", long enough for the min_length at hand, was validated
\* a second time, now with allow_placeholder, and was not accepted
C18_Witness ==
    /\ Validated
    /\ vk.n = 2
    /\ vk.key = YourApiKeyHere
    /\ vk.min_length = 5
    /\ vk.allow_placeholder
    /\ vk.r.ret = "False"
    /\ ~vk.first

\* str with every letter in lower case, as the claims compare it
Folded(str) ==
    [i \in 1..Len(str) |->
        CASE str[i] = "Y" -> "y" [] str[i] = "O" -> "o" [] str[i] = "U" -> "u"
          [] str[i] = "R" -> "r" [] str[i] = "X" -> "x" [] str[i] = "A" -> "a"
          [] OTHER -> str[i]]

\* sub is a substring of str
HasSubstring(str, sub) ==
    \E i \in 1..(Len(str) - Len(sub) + 1) :
        \A k \in 1..Len(sub) : str[i + k - 1] = sub[k]

\* "your-" or "your_" occurs in str and "-key" or "_key" begins somewhere
\* after it, with no line break in between
YourThenKey(str) ==
    \E i \in 1..Len(str) : \E j \in (i + 5)..Len(str) :
        /\ j + 3 <= Len(str)
        /\ <<str[i], str[i + 1], str[i + 2], str[i + 3]>> = <<"y", "o", "u", "r">>
        /\ str[i + 4] \in {"-", "_"}
        /\ str[j] \in {"-", "_"}
        /\ <<str[j + 1], str[j + 2], str[j + 3]>> = <<"k", "e", "y">>
        /\ \A k \in (i + 5)..(j - 1) : str[k] # "\n"

\* C19 as stated: a key that contains "your-" or "xxx", in any case, is never
\* accepted.
C19_YourOrXxxNeverAccepted ==
    (/\ Validated
     /\ \/ HasSubstring(Folded(vk.key), <<"y", "o", "u", "r", "-">>)
        \/ HasSubstring(Folded(vk.key), <<"x", "x", "x">>))
        => ~Accepted(vk.r)

\* C19 (amended): a key that contains "xxx", or in which "your-" or "your_"
\* is followed later on the same line by "-key" or "_key", in any case, is
\* never accepted, whatever its length and other characters.
C19_PlaceholderPatternNeverAccepted ==
    (/\ Validated
     /\ \/ YourThenKey(Folded(vk.key))
        \/ HasSubstring(Folded(vk.key), <<"x", "x", "x">>))
        => ~Accepted(vk.r)

\* an upper-case "YOUR_" followed by "_key", of sufficient length and made
\* of valid characters only, was rejected as a placeholder
C19_Witness ==
    /\ Validated
    /\ vk.key = Str_YOUR \o <<"_">> \o Str_ukey
    /\ vk.min_length = 5
    /\ ~Accepted(vk.r)
    /\ vk.r.msg = <<vk.key_name, "appears to be a placeholder value">>

\* a key that contains "your-" and was accepted
YourDashAccepted ==
    /\ Validated
    /\ vk.key = Str_your \o <<"-">> \o Str_filler
    /\ Accepted(vk.r)

\* C20: with allow_placeholder=True every rejection is a returned False and
\* nothing is raised; with allow_placeholder=False every rejection is a
\* raised ValueError.
C20_RejectionReportedByFlag ==
    Validated =>
        /\ vk.allow_placeholder =>
              /\ vk.r.exc = ""
              /\ ~Accepted(vk.r) => vk.r.ret = "False"
        /\ (~vk.allow_placeholder /\ ~Accepted(vk.r)) => vk.r.exc = "ValueError"

\* what the code does: allow_placeholder changes the report of a placeholder
\* match only; an empty, a short and a malformed key raise ValueError under
\* either setting
RejectionReport ==
    Validated =>
        /\ vk.r.ret = "False" <=> (vk.allow_placeholder /\ vk.key # <<>> /\ is_placeholder(vk.key))
        /\ ~Accepted(vk.r) => (vk.r.ret = "False" \/ vk.r.exc = "ValueError")
        /\ (~vk.allow_placeholder /\ ~Accepted(vk.r)) => vk.r.exc = "ValueError"

\* a short key was validated with allow_placeholder and ValueError was raised
ShortKeyRaisesDespiteFlag ==
    /\ Validated
    /\ vk.allow_placeholder
    /\ vk.key = Str_filler
    /\ vk.min_length = 20
    /\ vk.r.exc = "ValueError"
    /\ vk.r.msg = <<vk.key_name, "is too short">>


-----------------------------------------------------------------------------
(* config_loader.py: ConfigLoader.load, with the values of the document and
   of the environment *)

\* Python values: a missing entry / None, a str, a bool
Absent == [t |-> "absent", v |-> <<>>]
PyStr(chars) == [t |-> "str", v |-> chars]
PyTrue == [t |-> "bool", v |-> <<"T", "r", "u", "e">>]
PyFalse == [t |-> "bool", v |-> <<"F", "a", "l", "s", "e">>]

Str_true == <<"t", "r", "u", "e">>
Str_false == <<"f", "a", "l", "s", "e">>
Str_1 == <<"1">>
Str_yes == <<"y", "e", "s">>
Str_YES == <<"Y", "E", "S">>
Str_ev == <<"e", "v">>
Str_dv == <<"d", "v">>
Str_hybrid == <<"h", "y", "b", "r", "i", "d">>
Str_http == <<"h", "t", "t", "p">>

\* the variables _apply_env_overrides reads
OverrideVars ==
    {"AGENT_MODE", "OLLAMA_API_KEY", "OLLAMA_MODE", "OLLAMA_BASE_URL",
     "OPENROUTER_API_KEY", "OPENROUTER_MODE", "OPENROUTER_MODEL", "GITHUB_TOKEN",
     "FORCE_UPDATE"}

\* a variable the loader does not read
OtherVars == {"LOG_LEVEL"}

EnvVars == OverrideVars \cup OtherVars

\* the entry of config_dict an override variable is written to
Target(var) ==
    CASE var = "AGENT_MODE" -> "AGENT_MODE"
      [] var = "OLLAMA_API_KEY" -> "OLLAMA.http.api_key"
      [] var = "OLLAMA_MODE" -> "OLLAMA.mode"
      [] var = "OLLAMA_BASE_URL" -> "OLLAMA.http.base_url"
      [] var = "OPENROUTER_API_KEY" -> "OPENROUTER.http.api_key"
      [] var = "OPENROUTER_MODE" -> "OPENROUTER.mode"
      [] var = "OPENROUTER_MODEL" -> "OPENROUTER.models.primary"
      [] var = "GITHUB_TOKEN" -> "RESEARCH.github.token"
      [] var = "FORCE_UPDATE" -> "RESEARCH.force_update"

\* the entries of config_dict the overrides write to
DocPaths == { Target(var) : var \in OverrideVars }

\* config_dict = {}
EmptyDoc == [p \in DocPaths |-> Absent]

\* os.getenv(var) is truthy
getenv_truthy(env, var) == env[var].t = "str" /\ env[var].v # <<>>

\* if os.getenv(VAR): config_dict...[leaf] = os.getenv(VAR)
override(d, env, var) ==
    IF getenv_truthy(env, var) THEN [d EXCEPT ![Target(var)] = env[var]] ELSE d

override_force_update_verbatim(d, env) ==
    IF env["FORCE_UPDATE"].t = "str" /\ env["FORCE_UPDATE"].v # <<>>
    THEN [d EXCEPT !["RESEARCH.force_update"] = env["FORCE_UPDATE"]]
    ELSE d

\* if os.getenv("FORCE_UPDATE", "").lower() in ("true", "1", "yes"): ... = True
override_force_update(d, env) ==
    LET text == IF env["FORCE_UPDATE"].t = "str" THEN env["FORCE_UPDATE"].v ELSE <<>>
    IN IF lower(text) \in {Str_true, Str_1, Str_yes}
       THEN [d EXCEPT !["RESEARCH.force_update"] = PyTrue]
       ELSE d

\* ConfigLoader._apply_env_overrides, every override and its value
env_overrides(d, env) ==
    LET d1 == override(d, env, "AGENT_MODE")
        d2 == override(d1, env, "OLLAMA_API_KEY")
        d3 == override(d2, env, "OLLAMA_MODE")
        d4 == override(d3, env, "OLLAMA_BASE_URL")
        d5 == override(d4, env, "OPENROUTER_API_KEY")
        d6 == override(d5, env, "OPENROUTER_MODE")
        d7 == override(d6, env, "OPENROUTER_MODEL")
        d8 == override(d7, env, "GITHUB_TOKEN")
    IN override_force_update(d8, env)

\* the fields of Config the entries above are copied to
ConfigFields ==
    {"agent_mode", "ollama.mode", "ollama.http.api_key", "ollama.http.base_url",
     "openrouter.mode", "openrouter.http.api_key", "research.github.token",
     "research.force_update"}

\* the entry of config_dict a field of Config is built from
Source(f) ==
    CASE f = "agent_mode" -> "AGENT_MODE"
      [] f = "ollama.mode" -> "OLLAMA.mode"
      [] f = "ollama.http.api_key" -> "OLLAMA.http.api_key"
      [] f = "ollama.http.base_url" -> "OLLAMA.http.base_url"
      [] f = "openrouter.mode" -> "OPENROUTER.mode"
      [] f = "openrouter.http.api_key" -> "OPENROUTER.http.api_key"
      [] f = "research.github.token" -> "RESEARCH.github.token"
      [] f = "research.force_update" -> "RESEARCH.force_update"

\* the defaults of the .get calls of _dict_to_config
FieldDefault(f) ==
    CASE f = "agent_mode" -> PyStr(Str_hybrid)
      [] f \in {"ollama.mode", "openrouter.mode"} -> PyStr(Str_http)
      [] OTHER -> Absent

\* ConfigLoader._dict_to_config: OPENROUTER.models is copied to no field
to_config(d) ==
    [f \in ConfigFields |->
        IF d[Source(f)] = Absent THEN FieldDefault(f) ELSE d[Source(f)]]

\* self._config = None
NoConfig == [id |-> 0, fields |-> [f \in ConfigFields |-> Absent]]

load_uncached(l, file, env) ==
    LET d == IF file.exists THEN file.d ELSE EmptyDoc
        c == [id |-> l.created + 1, fields |-> to_config(env_overrides(d, env))]
    IN [l EXCEPT !.config = c, !.ret = c, !.created = @ + 1,
                 !.reads = @ + 1]

\* ConfigLoader.load: l is the loader, id the identity of a Config object
load(l, file, env) ==
    IF l.config.id # 0
    THEN [l EXCEPT !.ret = l.config]
    ELSE LET d == IF file.exists THEN file.d ELSE EmptyDoc
             c == [id |-> l.created + 1, fields |-> to_config(env_overrides(d, env))]
         IN [l EXCEPT !.config = c, !.ret = c, !.created = @ + 1,
                      !.reads = @ + 1]


\* most environment variables set when the process starts
MaxEnvSet == 1

\* most changes made to the environment or to config.yml after the first load
MaxChanges == 1

\* most calls of load() in a process
MaxLoads == 3

\* the values config.yml gives an entry
DocValues(path) ==
    IF path = "RESEARCH.force_update" THEN {PyTrue, PyFalse} ELSE {PyStr(Str_dv)}

\* the values the environment gives a variable
EnvValues(var) ==
    IF var = "FORCE_UPDATE"
    THEN {PyStr(<<>>), PyStr(Str_true), PyStr(Str_false), PyStr(Str_YES)}
    ELSE {PyStr(<<>>), PyStr(Str_ev)}

\* config.yml: missing, or a document with at most one of the entries
Files ==
    {[exists |-> FALSE, d |-> EmptyDoc], [exists |-> TRUE, d |-> EmptyDoc]} \cup
    { [exists |-> TRUE, d |-> [EmptyDoc EXCEPT ![p] = v]] :
        <<p, v>> \in UNION { {p} \X DocValues(p) : p \in DocPaths } }

\* os.environ with nothing set
EmptyEnv == [var \in EnvVars |-> Absent]

\* os.environ with the variables of S set
EnvsOn(S) ==
    { [var \in EnvVars |-> IF var \in S THEN f[var] ELSE Absent] :
        f \in { g \in [S -> UNION { EnvValues(var) : var \in S }] :
                  \A var \in S : g[var] \in EnvValues(var) } }

\* os.environ when the process starts
Envs ==
    UNION { EnvsOn(S) : S \in { T \in SUBSET OverrideVars : Cardinality(T) <= MaxEnvSet } }

\* the ConfigLoader after __init__
NewLoader == [config |-> NoConfig, ret |-> NoConfig, created |-> 0, reads |-> 0]

\* get_config() / ConfigLoader.load()
Load ==
    /\ cl.pc = "run"
    /\ cl.loads < MaxLoads
    /\ LET l == load(cl.l, cl.file, cl.env)
       IN cl' = [cl EXCEPT !.l = l, !.loads = @ + 1,
                           !.first = IF cl.loads = 0 THEN l.ret ELSE @]
    /\ UNCHANGED <<ResolverVars, Side, rt, vk, gt>>

\* the environment changes after the first load
Putenv ==
    /\ cl.pc = "run"
    /\ cl.loads >= 1
    /\ cl.changes < MaxChanges
    /\ \E var \in OverrideVars : \E v \in EnvValues(var) \cup {Absent} :
          /\ v # cl.env[var]
          /\ cl' = [cl EXCEPT !.env[var] = v, !.changes = @ + 1]
    /\ UNCHANGED <<ResolverVars, Side, rt, vk, gt>>

\* config.yml is rewritten after the first load
EditFile ==
    /\ cl.pc = "run"
    /\ cl.loads >= 1
    /\ cl.changes < MaxChanges
    /\ \E file \in Files :
          /\ file # cl.file
          /\ cl' = [cl EXCEPT !.file = file, !.changes = @ + 1]
    /\ UNCHANGED <<ResolverVars, Side, rt, vk, gt>>

InitConfig ==
    /\ ResolverIdle
    /\ rt = Idle
    /\ vk = Idle
    /\ \E file \in Files, env \in Envs :
          cl = [pc |-> "run", file |-> file, env |-> env, l |-> NewLoader,
                first |-> NoConfig, loads |-> 0, changes |-> 0]
    /\ gt = Idle
    /\ SideIdle

NextConfig == Load \/ Putenv \/ EditFile

SpecConfig == InitConfig /\ [][NextConfig]_vars

-----------------------------------------------------------------------------
(* Properties of ConfigLoader.load *)

Loaded == cl.pc = "run" /\ cl.loads >= 1

\* C12: after the first load() every later load() returns the very same
\* Config instance, and neither config.yml nor the environment is read
\* again: a change made to either after the first load is never observed.
C12_LoadReturnsCachedInstance ==
    Loaded =>
        /\ cl.l.ret = cl.first
        /\ cl.l.ret.id = 1
        /\ cl.l.created = 1
        /\ cl.l.reads = 1

\* load() was called again after a change that a fresh load would have shown
C12_Witness ==
    /\ Loaded
    /\ cl.loads >= 2
    /\ cl.changes = 1
    /\ cl.l.ret = cl.first
    /\ to_config(env_overrides(IF cl.file.exists THEN cl.file.d ELSE EmptyDoc, cl.env))
          # cl.l.ret.fields

\* the value Config exposes for an entry of the document
Exposed(config, path) ==
    IF \E f \in ConfigFields : Source(f) = path
    THEN config.fields[CHOOSE f \in ConfigFields : Source(f) = path]
    ELSE Absent

\* the document's value of an entry, or the default of its field
DocumentOrDefault(file, path) ==
    LET d == IF file.exists THEN file.d ELSE EmptyDoc
    IN IF d[path] # Absent THEN d[path]
       ELSE IF path = "AGENT_MODE" THEN PyStr(Str_hybrid)
       ELSE IF path \in {"OLLAMA.mode", "OPENROUTER.mode"} THEN PyStr(Str_http)
       ELSE Absent

FirstLoad == Loaded /\ cl.changes = 0

\* C14: for each override variable, when it is set the Config returned by
\* load() holds its value in the mapped field whatever the document
\* contains, and when it is unset the field holds the document's value or
\* its default.
C14_EnvOverridesDocument ==
    FirstLoad =>
        \A var \in OverrideVars :
            Exposed(cl.l.ret, Target(var)) =
                IF cl.env[var] # Absent THEN cl.env[var]
                ELSE DocumentOrDefault(cl.file, Target(var))

StringOverrideVars ==
    {"AGENT_MODE", "OLLAMA_API_KEY", "OLLAMA_MODE", "OLLAMA_BASE_URL",
     "OPENROUTER_API_KEY", "OPENROUTER_MODE", "GITHUB_TOKEN"}

\* what the loader does: a non-empty value of one of seven variables replaces
\* the document's; FORCE_UPDATE can only switch the flag on, as a boolean;
\* OPENROUTER_MODEL reaches no field of Config
OverridesAsCoded ==
    FirstLoad =>
        /\ \A var \in StringOverrideVars :
              Exposed(cl.l.ret, Target(var)) =
                 IF cl.env[var] \notin {Absent, PyStr(<<>>)} THEN cl.env[var]
                 ELSE DocumentOrDefault(cl.file, Target(var))
        /\ Exposed(cl.l.ret, "RESEARCH.force_update") =
              IF cl.env["FORCE_UPDATE"] \in {PyStr(Str_true), PyStr(Str_YES)}
              THEN PyTrue
              ELSE DocumentOrDefault(cl.file, "RESEARCH.force_update")
        /\ Exposed(cl.l.ret, "OPENROUTER.models.primary") = Absent

\* OPENROUTER_MODEL was set and the Config loaded holds it nowhere
OpenRouterModelDropped ==
    /\ FirstLoad
    /\ cl.env["OPENROUTER_MODEL"] = PyStr(Str_ev)
    /\ \A f \in ConfigFields : cl.l.ret.fields[f] # PyStr(Str_ev)


-----------------------------------------------------------------------------
(* config_manager.py: ConfigManager.save_config, the .env file, load_dotenv
   and the loader *)

Str_cut == <<"e", " ", "#", "v">>
Str_pv == <<"p", "v">>

\* most settings held by the ConfigManager
MaxKeys == 1

\* the values a menu of the ConfigManager stores under a key
ManagerValues(var) ==
    IF var = "FORCE_UPDATE" THEN {PyStr(Str_true), PyStr(Str_false)}
    ELSE {PyStr(<<>>), PyStr(Str_ev), PyStr(Str_cut)}

\* self.config of the ConfigManager
Managers ==
    UNION { { [var \in EnvVars |-> IF var \in S THEN f[var] ELSE Absent] :
                f \in { g \in [S -> UNION { ManagerValues(var) : var \in S }] :
                          \A var \in S : g[var] \in ManagerValues(var) } } :
            S \in { T \in SUBSET EnvVars : Cardinality(T) <= MaxKeys } }

\* os.environ before the script starts: empty, or one variable exported
Presets ==
    {EmptyEnv} \cup { [EmptyEnv EXCEPT ![var] = PyStr(Str_pv)] : var \in EnvVars }

\* f.write("# " + "=" * 76 + "\n")
HeaderLine == <<"#", " ", "=", "=">>

\* f"{key}={value}\n"; the key is one element of the line
EnvLine(key, value) == <<key, "=">> \o value

\* what save_config writes for self.config
written_lines(config) ==
    {HeaderLine} \cup
    { EnvLine(var, config[var].v) : var \in { k \in EnvVars : config[k] # Absent } }

RECURSIVE lstrip(_)
lstrip(chars) ==
    IF chars # <<>> /\ Head(chars) = " " THEN lstrip(Tail(chars)) ELSE chars

RECURSIVE rstrip(_)
rstrip(chars) ==
    IF chars # <<>> /\ chars[Len(chars)] = " "
    THEN rstrip(SubSeq(chars, 1, Len(chars) - 1)) ELSE chars

\* an unquoted value of a .env line: blanks around it and a trailing
\* " #..." comment are dropped
dotenv_value(chars) ==
    LET body == lstrip(chars)
        cuts == { i \in 1..(Len(body) - 1) : body[i] = " " /\ body[i + 1] = "#" }
        kept == IF cuts = {} THEN body
                ELSE SubSeq(body, 1, (CHOOSE i \in cuts : \A j \in cuts : i <= j) - 1)
    IN rstrip(kept)

\* the position of the first "=" of a line
first_equals(line) ==
    CHOOSE i \in 1..Len(line) : line[i] = "=" /\ \A j \in 1..(i - 1) : line[j] # "="

\* the binding a line of .env gives var, if any
binding(lines, var) ==
    LET hits == { line \in lines : line[1] = var /\ \E i \in 1..Len(line) : line[i] = "=" }
    IN IF hits = {} THEN Absent
       ELSE LET line == CHOOSE l \in hits : TRUE
            IN PyStr(dotenv_value(SubSeq(line, first_equals(line) + 1, Len(line))))

\* load_dotenv(): a variable already in os.environ keeps its value
load_dotenv(lines, env) ==
    [var \in EnvVars |-> IF env[var] # Absent THEN env[var] ELSE binding(lines, var)]

\* ConfigManager.save_config
SaveConfig ==
    /\ cl.pc = "edit"
    /\ cl' = [cl EXCEPT !.pc = "saved", !.lines = written_lines(cl.mgr)]
    /\ UNCHANGED <<ResolverVars, Side, rt, vk, gt>>

\* a script starts: load_dotenv() runs at import
LoadDotenv ==
    /\ cl.pc = "saved"
    /\ cl' = [cl EXCEPT !.pc = "env", !.env = load_dotenv(cl.lines, cl.env)]
    /\ UNCHANGED <<ResolverVars, Side, rt, vk, gt>>

\* the script calls get_config()
LoadAfterDotenv ==
    /\ cl.pc = "env"
    /\ cl' = [cl EXCEPT !.pc = "loaded", !.l = load(cl.l, cl.file, cl.env)]
    /\ UNCHANGED <<ResolverVars, Side, rt, vk, gt>>

InitRoundTrip ==
    /\ ResolverIdle
    /\ rt = Idle
    /\ vk = Idle
    /\ \E file \in Files, env \in Presets, mgr \in Managers :
          cl = [pc |-> "edit", file |-> file, env |-> env, preset |-> env,
                mgr |-> mgr, lines |-> {}, l |-> NewLoader]
    /\ gt = Idle
    /\ SideIdle

NextRoundTrip == SaveConfig \/ LoadDotenv \/ LoadAfterDotenv

SpecRoundTrip == InitRoundTrip /\ [][NextRoundTrip]_vars

-----------------------------------------------------------------------------
(* Properties of the .env round trip *)

Reloaded == cl.pc = "loaded"

PlainValue(v) ==
    /\ v.t = "str"
    /\ v.v # <<>>
    /\ \A i \in 1..Len(v.v) : v.v[i] \notin {" ", "#"}

StringRoundTrip ==
    /\ Reloaded
    /\ cl.mgr["OLLAMA_API_KEY"] = PyStr(Str_ev)
    /\ cl.preset = EmptyEnv
    /\ cl.l.ret.fields["ollama.http.api_key"] = PyStr(Str_ev)


-----------------------------------------------------------------------------
(* config_loader.py: ConfigLoader.get *)

\* a Python value met on the way: a dict, a dataclass instance, a str, None
\* or a bound method, told apart by name
Value(t, name) == [t |-> t, name |-> name]

\* self._config.__dict__
Root == Value("dict", "__dict__")

\* what config.yml gives the research section: nothing, `github: {}`, or
\* `github: {token: ...}`
Structures == {{}, {"github"}, {"github", "token"}}

\* the defaults a caller passes
Defaults ==
    {Value("none", "None"), Value("str", "dflt"),
     Value("dict", "{token: inner}"), Value("dict", "{}")}

\* the names a key is made of
Segments == {"agent_mode", "ollama", "mode", "research", "github", "token", "upper", "nope"}

\* most elements of a key: names and dots
MaxKeyLen == 5

\* the keys a caller passes: names separated by ".", an empty name included
DottedKeys ==
    { k \in UNION { [1..n -> Segments \cup {"."}] : n \in 1..MaxKeyLen } :
        \A i \in 1..(Len(k) - 1) : k[i] = "." \/ k[i + 1] = "." }

\* key.split(".")
RECURSIVE split(_)
split(key) ==
    IF \A i \in 1..Len(key) : key[i] # "." THEN <<key>>
    ELSE LET i == CHOOSE j \in 1..Len(key) :
                      key[j] = "." /\ \A h \in 1..(j - 1) : key[h] # "."
         IN <<SubSeq(key, 1, i - 1)>> \o split(SubSeq(key, i + 1, Len(key)))

\* part in value, for a dict
dict_has(value, part, present) ==
    CASE value.name = "__dict__" -> part \in {<<"agent_mode">>, <<"ollama">>, <<"research">>}
      [] value.name = "research" -> part = <<"github">> /\ "github" \in present
      [] value.name = "github" -> part = <<"token">> /\ "token" \in present
      [] value.name = "{token: inner}" -> part = <<"token">>
      [] OTHER -> FALSE

\* value[part], for a dict that has it
dict_item(value, part) ==
    CASE value.name = "__dict__" /\ part = <<"agent_mode">> -> Value("str", "hybrid")
      [] value.name = "__dict__" /\ part = <<"ollama">> -> Value("obj", "AgentConfig")
      [] value.name = "__dict__" /\ part = <<"research">> -> Value("dict", "research")
      [] value.name = "research" -> Value("dict", "github")
      [] value.name = "github" -> Value("str", "tok")
      [] value.name = "{token: inner}" -> Value("str", "inner")

\* hasattr(value, part), for a value that is no dict
has_attribute(value, part) ==
    CASE value.t = "obj" -> part \in {<<"mode">>, <<"http">>}
      [] value.t = "str" -> part = <<"upper">>
      [] OTHER -> FALSE

\* getattr(value, part)
attribute(value, part) ==
    CASE value.t = "obj" /\ part = <<"mode">> -> Value("str", "http")
      [] value.t = "obj" /\ part = <<"http">> -> Value("dict", "http")
      [] value.t = "str" -> Value("method", "str.upper")

\* the loop `for part in parts` and the return after it
RECURSIVE walk(_, _, _, _)
walk(value, parts, default, present) ==
    IF parts = <<>> THEN value
    ELSE IF value.t = "dict"
         THEN walk(IF dict_has(value, Head(parts), present)
                   THEN dict_item(value, Head(parts)) ELSE default,
                   Tail(parts), default, present)
    ELSE IF has_attribute(value, Head(parts))
         THEN walk(attribute(value, Head(parts)), Tail(parts), default, present)
    ELSE default

\* ConfigLoader.get(key, default)
loader_get(key, default, present) == walk(Root, split(key), default, present)

\* a caller asks for a key
Get ==
    /\ gt.pc = "ask"
    /\ gt' = [gt EXCEPT !.pc = "done", !.exc = "",
                        !.ret = loader_get(gt.key, gt.default, gt.present)]
    /\ UNCHANGED <<ResolverVars, Side, rt, vk, cl>>

\* the caller's next question
Ask ==
    /\ gt.pc = "done"
    /\ \E default \in Defaults :
          gt' = [gt EXCEPT !.pc = "ask", !.default = default, !.ret = Value("none", "-")]
    /\ UNCHANGED <<ResolverVars, Side, rt, vk, cl>>

InitGet ==
    /\ ResolverIdle
    /\ rt = Idle
    /\ vk = Idle
    /\ cl = Idle
    /\ \E key \in DottedKeys, default \in Defaults, present \in Structures :
          gt = [pc |-> "ask", key |-> key, default |-> default,
                present |-> present, ret |-> Value("none", "-"), exc |-> ""]
    /\ SideIdle

NextGet == Get \/ Ask

SpecGet == InitGet /\ [][NextGet]_vars

-----------------------------------------------------------------------------
(* Properties of ConfigLoader.get *)

\* the dotted paths of the loaded structure
LoadedPaths(present) ==
    {<<"agent_mode">>, <<"ollama">>, <<"ollama", "mode">>, <<"ollama", "http">>,
     <<"research">>} \cup
    (IF "github" \in present THEN {<<"research", "github">>} ELSE {}) \cup
    (IF "token" \in present THEN {<<"research", "github", "token">>} ELSE {})

\* the names between the dots of a key
RECURSIVE NamesOf(_)
NamesOf(key) ==
    IF key = <<>> THEN <<"">>
    ELSE IF Head(key) = "." THEN <<"">> \o NamesOf(Tail(key))
    ELSE LET rest == NamesOf(Tail(key))
         IN <<Head(key)>> \o Tail(rest)

\* some segment of the key is absent from the loaded structure
SegmentAbsent == NamesOf(gt.key) \notin LoadedPaths(gt.present)

\* C13: get(key, default) never raises and returns `default` whenever a
\* segment of the key is absent from the loaded structure, whatever the
\* default is.
C13_DefaultWhenSegmentAbsent ==
    gt.pc = "done" =>
        /\ gt.exc = ""
        /\ SegmentAbsent => gt.ret = gt.default

\* what get does for a key all of whose segments are present
PresentPathReturned ==
    (gt.pc = "done" /\ ~SegmentAbsent) =>
        /\ gt.ret.t # "method"
        /\ NamesOf(gt.key) = <<"research", "github", "token">> => gt.ret = Value("str", "tok")
        /\ NamesOf(gt.key) = <<"ollama", "mode">> => gt.ret = Value("str", "http")

\* research.github is missing, the default is a dict with a token entry, and
\* get("research.github.token", default) returned that entry
DefaultWalkedInto ==
    /\ gt.pc = "done"
    /\ gt.key = <<"research", ".", "github", ".", "token">>
    /\ gt.present = {}
    /\ gt.default = Value("dict", "{token: inner}")
    /\ gt.ret = Value("str", "inner")

-----------------------------------------------------------------------------
(* utils/resilience.py: safe_json_load *)

\* a JSON text is a sequence of lexemes: brackets, a comma, the string "k",
\* the string "k" with its colon, the number 0, a blank, and a bare word
JsonLexemes == {"{", "}", "[", "]", ",", "\"k\"", "\"k\":", "0", " ", "invalid"}

\* most lexemes in a text
MaxJsonLen == 4

JsonTexts == UNION { [1..n -> JsonLexemes] : n \in 0..MaxJsonLen }

\* the defaults a caller passes: None, and {"score": 0}
JsonDefaults == {<<"None">>, <<"{", "\"score\":", "0", "}">>}

\* the scanner's whitespace skip
RECURSIVE skip_blanks(_)
skip_blanks(text) ==
    IF text # <<>> /\ Head(text) = " " THEN skip_blanks(Tail(text)) ELSE text

Parsed(value, rest) == [ok |-> TRUE, value |-> value, rest |-> rest]

JSONDecodeError == [ok |-> FALSE, value |-> <<>>, rest |-> <<>>]

RECURSIVE scan_value(_)
RECURSIVE scan_items(_, _)
RECURSIVE scan_members(_, _)

\* the items of an array after "[" or after a comma; seen is the value so far
scan_items(text, seen) ==
    LET item == scan_value(text)
        after == skip_blanks(item.rest)
    IN IF ~item.ok \/ after = <<>> THEN JSONDecodeError
       ELSE IF Head(after) = "]"
            THEN Parsed(seen \o item.value \o <<"]">>, Tail(after))
       ELSE IF Head(after) = ","
            THEN scan_items(skip_blanks(Tail(after)), seen \o item.value \o <<",">>)
       ELSE JSONDecodeError

\* the members of an object after "{" or after a comma
scan_members(text, seen) ==
    IF text = <<>> \/ Head(text) # "\"k\":" THEN JSONDecodeError
    ELSE LET item == scan_value(skip_blanks(Tail(text)))
             after == skip_blanks(item.rest)
         IN IF ~item.ok \/ after = <<>> THEN JSONDecodeError
            ELSE IF Head(after) = "}"
                 THEN Parsed(seen \o <<"\"k\":">> \o item.value \o <<"}">>, Tail(after))
            ELSE IF Head(after) = ","
                 THEN scan_members(skip_blanks(Tail(after)),
                                   seen \o <<"\"k\":">> \o item.value \o <<",">>)
            ELSE JSONDecodeError

\* one JSON value at the head of the text
scan_value(text) ==
    IF text = <<>> THEN JSONDecodeError
    ELSE CASE Head(text) \in {"0", "\"k\""} -> Parsed(<<Head(text)>>, Tail(text))
           [] Head(text) = "[" ->
                LET inner == skip_blanks(Tail(text))
                IN IF inner # <<>> /\ Head(inner) = "]"
                   THEN Parsed(<<"[", "]">>, Tail(inner))
                   ELSE scan_items(inner, <<"[">>)
           [] Head(text) = "{" ->
                LET inner == skip_blanks(Tail(text))
                IN IF inner # <<>> /\ Head(inner) = "}"
                   THEN Parsed(<<"{", "}">>, Tail(inner))
                   ELSE scan_members(inner, <<"{">>)
           [] OTHER -> JSONDecodeError

\* json.loads(data): one value, blanks around it, nothing after it
json_loads(data) ==
    LET r == scan_value(skip_blanks(data))
    IN IF r.ok /\ skip_blanks(r.rest) = <<>> THEN r ELSE JSONDecodeError

safe_json_load_none(data, default) ==
    LET r == json_loads(data)
    IN IF r.ok THEN [ret |-> r.value, exc |-> "", branch |-> "try"]
       ELSE [ret |-> <<"None">>, exc |-> "", branch |-> "except"]

\* safe_json_load(data, default)
safe_json_load(data, default) ==
    LET r == json_loads(data)
    IN IF r.ok THEN [ret |-> r.value, exc |-> "", branch |-> "try"]
       ELSE [ret |-> default, exc |-> "", branch |-> "except"]

\* a caller parses the text at hand
JsonLoad ==
    /\ js.pc = "new"
    /\ js' = [js EXCEPT !.pc = "done", !.r = safe_json_load(js.data, js.default)]
    /\ UNCHANGED <<ResolverVars, rt, vk, cl, gt, fs, rq, ar, kb, tr, up, cm>>

\* the same text is parsed again, with another default
JsonLoadAgain ==
    /\ js.pc = "done"
    /\ \E default \in JsonDefaults \ {js.default} :
          js' = [js EXCEPT !.default = default, !.r = safe_json_load(js.data, default)]
    /\ UNCHANGED <<ResolverVars, rt, vk, cl, gt, fs, rq, ar, kb, tr, up, cm>>

InitJson ==
    /\ ResolverIdle
    /\ rt = Idle /\ vk = Idle /\ cl = Idle /\ gt = Idle
    /\ \E data \in JsonTexts, default \in JsonDefaults :
          js = [pc |-> "new", data |-> data, default |-> default,
                r |-> [ret |-> <<>>, exc |-> "", branch |-> ""]]
    /\ fs = Idle /\ rq = Idle /\ ar = Idle /\ kb = Idle
    /\ tr = Idle /\ up = Idle /\ cm = Idle

NextJson == JsonLoad \/ JsonLoadAgain

SpecJson == InitJson /\ [][NextJson]_vars

-----------------------------------------------------------------------------
(* Properties of safe_json_load *)

\* the JSON values, written without blanks, by nesting depth
RECURSIVE JsonValues(_)
JsonValues(depth) ==
    IF depth = 0 THEN {<<"0">>, <<"\"k\"">>}
    ELSE LET V == JsonValues(depth - 1)
         IN V \cup {<<"[", "]">>, <<"{", "}">>}
              \cup { <<"[">> \o v \o <<"]">> : v \in V }
              \cup { <<"[">> \o v \o <<",">> \o w \o <<"]">> : v \in V, w \in V }
              \cup { <<"{", "\"k\":">> \o v \o <<"}">> : v \in V }

\* the text without its blanks
Unspaced(text) == SelectSeq(text, LAMBDA x : x # " ")

\* the text is valid JSON: blanks may stand between any two lexemes
ValidJson(text) == Unspaced(text) \in JsonValues(2)

JsonObjectParsed ==
    /\ js.pc = "done"
    /\ js.data = <<"{", "\"k\":", "0", "}">>
    /\ js.r.ret = js.data
    /\ js.r.ret # js.default

-----------------------------------------------------------------------------
(* utils/resilience.py: safe_file_write and safe_file_read *)

\* most chunks of text in the file
MaxFileLen == 2

\* the pieces of text written
Chunks == {"a", "b"}

\* what the operating system does to a call that could succeed: it lets it
\* through, or fails it with an OSError (permissions, a full disk)
OsOutcomes == {"ok", "OSError"}

\* the result of a call: what it returned, what it let escape, and the step
\* that failed
FileResult(op, ret, text, raised, failed) ==
    [op |-> op, ret |-> ret, text |-> text, exc |-> raised, failed |-> failed]

NoFileResult == FileResult("", "", <<>>, "", "")

\* Path(filepath).parent.mkdir(parents=True, exist_ok=True)
mkdir_parents(f, o) ==
    IF f.parent = "file" \/ (f.parent = "missing" /\ o = "OSError")
    THEN [f |-> f, exc |-> "OSError"]
    ELSE [f |-> [f EXCEPT !.parent = "dir"], exc |-> ""]

\* open(filepath, mode, encoding=encoding): 'w' truncates
open_for_write(f, mode, o) ==
    IF f.parent # "dir" \/ f.file \in {"dir", "denied"} \/ o = "OSError"
    THEN [f |-> f, exc |-> "OSError"]
    ELSE [f |-> [f EXCEPT !.file = "regular",
                          !.text = IF mode = "w" \/ f.file = "missing" THEN <<>> ELSE @,
                          !.utf8 = IF mode = "w" \/ f.file = "missing" THEN TRUE ELSE @],
          exc |-> ""]

\* f.write(content) and the close of the with block
write_content(f, content, o) ==
    IF ~content.encodable THEN [f |-> f, exc |-> "UnicodeEncodeError"]
    ELSE IF o = "OSError" THEN [f |-> f, exc |-> "OSError"]
    ELSE [f |-> [f EXCEPT !.text = Append(@, content.text)], exc |-> ""]

\* the except clause of both functions: (IOError, OSError), FileNotFoundError
caught_by_handler(e) == e = "OSError"

\* what the function does with the exception of a failed step
after_failure(f, op, default, e, step) ==
    IF caught_by_handler(e)
    THEN [f |-> f, r |-> FileResult(op, IF op = "write" THEN "False" ELSE "default",
                                    default, "", step)]
    ELSE [f |-> f, r |-> FileResult(op, "", <<>>, e, step)]

\* safe_file_write(filepath, content, mode, create_dirs=create_dirs)
safe_file_write(f, content, mode, create_dirs, o) ==
    LET made == IF create_dirs THEN mkdir_parents(f, o.mkdir) ELSE [f |-> f, exc |-> ""]
        opened == open_for_write(made.f, mode, o.open)
        written == write_content(opened.f, content, o.write)
    IN IF made.exc # "" THEN after_failure(made.f, "write", <<>>, made.exc, "mkdir")
       ELSE IF opened.exc # "" THEN after_failure(opened.f, "write", <<>>, opened.exc, "open")
       ELSE IF written.exc # "" THEN after_failure(written.f, "write", <<>>, written.exc, "write")
       ELSE [f |-> written.f, r |-> FileResult("write", "True", <<>>, "", "")]

\* Path(filepath).read_text(encoding=encoding)
read_text(f, o) ==
    IF f.parent # "dir" \/ f.file # "regular" \/ o = "OSError"
    THEN [text |-> <<>>, exc |-> "OSError", step |-> "open"]
    ELSE IF ~f.utf8 THEN [text |-> <<>>, exc |-> "UnicodeDecodeError", step |-> "decode"]
    ELSE [text |-> f.text, exc |-> "", step |-> ""]

\* safe_file_read(filepath, default)
safe_file_read(f, default, o) ==
    LET got == read_text(f, o)
    IN IF got.exc # "" THEN after_failure(f, "read", default, got.exc, got.step)
       ELSE [f |-> f, r |-> FileResult("read", "content", got.text, "", "")]

\* the contents a caller writes: text, or text with a lone surrogate
Contents22 ==
    [text : Chunks, encodable : BOOLEAN]

\* a caller writes
FileWrite ==
    /\ Len(fs.f.text) < MaxFileLen
    /\ \E content \in Contents22, mode \in {"w", "a"}, create_dirs \in BOOLEAN,
          o \in [mkdir : OsOutcomes, open : OsOutcomes, write : OsOutcomes] :
          LET s == safe_file_write(fs.f, content, mode, create_dirs, o)
          IN fs' = [pc |-> "done", f |-> s.f, r |-> s.r, before |-> fs.f,
                    arg |-> [content |-> content, mode |-> mode, create_dirs |-> create_dirs]]
    /\ UNCHANGED <<ResolverVars, rt, vk, cl, gt, js, rq, ar, kb, tr, up, cm>>

\* a caller reads, with a default
FileRead ==
    /\ \E default \in {<<>>, <<"d">>}, o \in OsOutcomes :
          LET s == safe_file_read(fs.f, default, o)
          IN fs' = [pc |-> "done", f |-> s.f, r |-> s.r, before |-> fs.f,
                    arg |-> [content |-> [text |-> "a", encodable |-> TRUE],
                             mode |-> "r", create_dirs |-> FALSE]]
    /\ UNCHANGED <<ResolverVars, rt, vk, cl, gt, js, rq, ar, kb, tr, up, cm>>

\* the path before the first call: its parent is a directory, is missing or
\* is a file; the file is missing, regular, a directory or not accessible;
\* a regular file holds text or bytes that are no UTF-8
FileStates ==
    { f \in [parent : {"dir", "missing", "file"},
             file : {"missing", "regular", "dir", "denied"},
             text : {<<>>, <<"a">>},
             utf8 : BOOLEAN] :
        /\ f.parent # "dir" => f.file = "missing"
        /\ f.file # "regular" => (f.text = <<>> /\ f.utf8) }

InitFile ==
    /\ ResolverIdle
    /\ rt = Idle /\ vk = Idle /\ cl = Idle /\ gt = Idle /\ js = Idle
    /\ \E f \in FileStates :
          fs = [pc |-> "new", f |-> f, r |-> NoFileResult, before |-> f,
                arg |-> [content |-> [text |-> "a", encodable |-> TRUE],
                         mode |-> "r", create_dirs |-> FALSE]]
    /\ rq = Idle /\ ar = Idle /\ kb = Idle /\ tr = Idle /\ up = Idle /\ cm = Idle

NextFile == FileWrite \/ FileRead

SpecFile == InitFile /\ [][NextFile]_vars

-----------------------------------------------------------------------------
(* Properties of safe_file_write and safe_file_read *)

FileCalled == fs.pc = "done"

\* C22: neither function lets a failure of the file operation escape: on an
\* error while opening, decoding, reading, creating directories or writing,
\* safe_file_read returns the default and safe_file_write returns False;
\* safe_file_write returns True only when the content was written, after
\* the missing parent directories were created if create_dirs is true.
C22_FileFailuresNeverPropagate ==
    FileCalled =>
        /\ fs.r.exc = ""
        /\ (fs.r.op = "read" /\ fs.r.failed # "") => fs.r.ret = "default"
        /\ (fs.r.op = "write" /\ fs.r.failed # "") => fs.r.ret = "False"
        /\ fs.r.ret = "True" =>
              /\ fs.f.file = "regular"
              /\ fs.f.text # <<>>
              /\ fs.f.text[Len(fs.f.text)] = fs.arg.content.text
              /\ fs.before.parent = "missing" => (fs.arg.create_dirs /\ fs.f.parent = "dir")

\* what the handlers do: an OSError of any step becomes the default or
\* False; a decoding or an encoding error escapes
OnlyOSErrorHandled ==
    FileCalled =>
        /\ fs.r.exc \in {"", "UnicodeDecodeError", "UnicodeEncodeError"}
        /\ fs.r.exc = "UnicodeDecodeError" <=> (fs.r.op = "read" /\ fs.r.failed = "decode")
        /\ fs.r.exc = "UnicodeEncodeError" <=> (fs.r.op = "write" /\ fs.r.failed = "write"
                                                 /\ ~fs.arg.content.encodable)
        /\ (fs.r.failed # "" /\ fs.r.exc = "") => fs.r.ret \in {"default", "False"}
        /\ fs.r.ret = "True" =>
              /\ fs.f.text # <<>>
              /\ fs.f.text[Len(fs.f.text)] = fs.arg.content.text

\* a file that is no UTF-8 was read and UnicodeDecodeError escaped
DecodeErrorEscaped ==
    /\ FileCalled
    /\ fs.r.op = "read"
    /\ ~fs.before.utf8
    /\ fs.r.exc = "UnicodeDecodeError"

\* a write with create_dirs made the missing parent and returned True
WroteWithNewParent ==
    /\ FileCalled
    /\ fs.before.parent = "missing"
    /\ fs.r.ret = "True"
    /\ fs.f.parent = "dir"

-----------------------------------------------------------------------------
(* utils/resilience.py: resilient_request *)

\* the decorator of _make_request: max_attempts from the caller, the other
\* parameters at their defaults
request_retry_params(n) ==
    [max_attempts |-> n, base_delay |-> 1, max_delay |-> 30, exponential_base |-> 2]

\* what requests.request does: a response of some status comes back, a
\* RequestException (Timeout included) is raised, or another exception is
\* raised
RequestOutcomes ==
    {[out |-> "return", response |-> "200 OK"],
     [out |-> "return", response |-> "503 Service Unavailable"],
     [out |-> "return", response |-> "404 Not Found"],
     [out |-> "caught", response |-> NONE],
     [out |-> "other", response |-> NONE]}

\* requests.request(method, url, timeout=timeout, **kwargs) with a keyword it
\* does not take
UnexpectedKeyword == [out |-> "other", response |-> NONE]

request_result_reraise(r, response) ==
    IF r.pc = "raised" THEN [ret |-> NONE, exc |-> "Exception"]
    ELSE IF r.result = NONE THEN [ret |-> NONE, exc |-> ""]
    ELSE [ret |-> response, exc |-> ""]

\* try: return _make_request() / except Exception: return None
request_result(r, response) ==
    IF r.pc = "raised" THEN [ret |-> NONE, exc |-> ""]
    ELSE IF r.result = NONE THEN [ret |-> NONE, exc |-> ""]
    ELSE [ret |-> response, exc |-> ""]

\* resilient_request(url, max_attempts=n, **kwargs) is called
RequestBegin ==
    /\ rq.pc \in {"new", "done"}
    /\ \E n \in 0..MaxAttempts, kwargs_ok \in BOOLEAN :
          rq' = [pc |-> "retry", kwargs_ok |-> kwargs_ok, http |-> 0,
                 response |-> NONE, ret |-> NONE, exc |-> "",
                 r |-> [pc |-> "loop", params |-> request_retry_params(n),
                        attempt |-> 1, invocations |-> 0, outs |-> <<>>,
                        sleeps |-> <<>>, result |-> NONE, exc |-> ""]]
    /\ UNCHANGED <<ResolverVars, rt, vk, cl, gt, js, fs, ar, kb, tr, up, cm>>

\* the wrapper calls _make_request once
RequestAttempt ==
    /\ rq.pc = "retry"
    /\ rq.r.pc = "loop"
    /\ rq.r.attempt <= rq.r.params.max_attempts
    /\ \E o \in IF rq.kwargs_ok THEN RequestOutcomes ELSE {UnexpectedKeyword} :
          rq' = [rq EXCEPT !.r = retry_iteration(rq.r, o.out),
                           !.http = IF rq.kwargs_ok THEN @ + 1 ELSE @,
                           !.response = o.response]
    /\ UNCHANGED <<ResolverVars, rt, vk, cl, gt, js, fs, ar, kb, tr, up, cm>>

\* the wrapper has returned or raised, or its loop has run out
RequestEnd ==
    /\ rq.pc = "retry"
    /\ \/ rq.r.pc \in {"returned", "raised"}
       \/ rq.r.pc = "loop" /\ rq.r.attempt > rq.r.params.max_attempts
    /\ LET s == request_result(rq.r, rq.response)
       IN rq' = [rq EXCEPT !.pc = "done", !.ret = s.ret, !.exc = s.exc]
    /\ UNCHANGED <<ResolverVars, rt, vk, cl, gt, js, fs, ar, kb, tr, up, cm>>

InitRequest ==
    /\ ResolverIdle
    /\ rt = Idle /\ vk = Idle /\ cl = Idle /\ gt = Idle /\ js = Idle /\ fs = Idle
    /\ rq = [pc |-> "new"]
    /\ ar = Idle /\ kb = Idle /\ tr = Idle /\ up = Idle /\ cm = Idle

NextRequest == RequestBegin \/ RequestAttempt \/ RequestEnd

SpecRequest == InitRequest /\ [][NextRequest]_vars

-----------------------------------------------------------------------------
(* Properties of resilient_request *)

\* the calls so far all ended in a request error
AllRequestErrors(outs) == \A k \in 1..Len(outs) : outs[k] = "caught"

\* C23: resilient_request never raises; it makes at most max_attempts HTTP
\* calls, returns the response of the first call that does not throw, sleeps
\* the backoff delay after each request error that is not the last, and
\* returns None once max_attempts calls have all failed.
C23_RequestNeverRaises ==
    /\ rq.pc \in {"retry", "done"} =>
          /\ rq.http <= rq.r.params.max_attempts
          /\ rq.http <= Len(rq.r.outs)
          /\ \A k \in 1..(Len(rq.r.outs) - 1) : rq.r.outs[k] = "caught"
          /\ \A k \in 1..Len(rq.r.sleeps) :
                rq.r.outs[k] = "caught" /\ rq.r.sleeps[k] = ScheduledDelay(rq.r.params, k)
    /\ rq.pc = "done" =>
          LET n == Len(rq.r.outs)
          IN /\ rq.exc = ""
             /\ (n >= 1 /\ rq.r.outs[n] = "return") =>
                   (rq.ret = rq.response /\ rq.ret # NONE /\ Len(rq.r.sleeps) = n - 1)
             /\ (n = 0 \/ rq.r.outs[n] # "return") => rq.ret = NONE
             /\ (AllRequestErrors(rq.r.outs) /\ n >= 1) =>
                   (n = rq.r.params.max_attempts /\ Len(rq.r.sleeps) = n - 1)

\* three calls failed with a request error, two backoff sleeps were made,
\* and None came back
C23_Witness ==
    /\ rq.pc = "done"
    /\ rq.r.outs = <<"caught", "caught", "caught">>
    /\ rq.http = 3
    /\ rq.r.sleeps = <<1, 2>>
    /\ rq.ret = NONE
    /\ rq.exc = ""

\* the second call succeeded and its response came back
SecondResponseReturned ==
    /\ rq.pc = "done"
    /\ rq.r.outs = <<"caught", "return">>
    /\ rq.ret = "503 Service Unavailable"

-----------------------------------------------------------------------------
(* research_pipeline.py: the module body up to class SourceArchiver *)

\* the parameters of retry_with_backoff and their defaults (the `exceptions`
\* parameter, a tuple of types, is left at its default)
retry_defaults ==
    [max_attempts |-> 3, base_delay |-> 1, max_delay |-> 30, exponential_base |-> 2]

\* retry_with_backoff(**kwargs): binding the keyword arguments to the
\* parameters; a keyword that names no parameter is a TypeError
call_retry_with_backoff(kwargs) ==
    IF DOMAIN kwargs \subseteq (DOMAIN retry_defaults \cup {"exceptions"})
    THEN [exc |-> "",
          params |-> [k \in DOMAIN retry_defaults |->
                         IF k \in DOMAIN kwargs THEN kwargs[k] ELSE retry_defaults[k]]]
    ELSE [exc |-> "TypeError", params |-> retry_defaults]

\* a class body: each decorated method, in order, with the keyword arguments
\* of its decorator; the body stops at the first exception
RECURSIVE class_body(_, _)
class_body(methods, bound) ==
    IF methods = <<>> THEN [exc |-> "", bound |-> bound]
    ELSE LET d == call_retry_with_backoff(methods[1].kwargs)
         IN IF d.exc # "" THEN [exc |-> d.exc, bound |-> bound]
            ELSE class_body(Tail(methods),
                            bound \cup {[name |-> methods[1].name, params |-> d.params]})

\* class AIResearcher
AIResearcherMethods ==
    <<[name |-> "query_ollama", kwargs |-> [max_attempts |-> 3, base_delay |-> 2]],
      [name |-> "query_openrouter", kwargs |-> [max_attempts |-> 3, base_delay |-> 2]]>>

\* class SourceArchiver
SourceArchiverMethods ==
    <<[name |-> "fetch_and_archive", kwargs |-> [max_retries |-> 3, base_delay |-> 1]]>>

Str_TRUE == <<"T", "R", "U", "E">>
Str_True == <<"T", "r", "u", "e">>

\* the FORCE_UPDATE variable of the process environment
ForceUpdateEnv ==
    {Absent, PyStr(Str_true), PyStr(Str_TRUE), PyStr(Str_True), PyStr(Str_1),
     PyStr(Str_false), PyStr(<<>>)}

\* the archive file of a source: missing, or its age in days
ArchiveAges == {"missing", "0", "6", "7", "30"}

\* os.getenv("FORCE_UPDATE", "false").lower() == "true"
force_update(e) == lower(IF e.t = "absent" THEN Str_false ELSE e.v) = Str_true

\* lines 64-68: the configuration constants of the module
ReadConfiguration ==
    /\ ar.pc = "imports"
    /\ ar' = [ar EXCEPT !.pc = "configured",
                        !.FORCE_UPDATE = IF force_update(ar.environ) THEN "True" ELSE "False"]
    /\ UNCHANGED <<ResolverVars, rt, vk, cl, gt, js, fs, rq, kb, tr, up, cm>>

\* lines 84-176: class AIResearcher
DefineAIResearcher ==
    /\ ar.pc = "configured"
    /\ LET b == class_body(AIResearcherMethods, {})
       IN ar' = [ar EXCEPT !.pc = IF b.exc = "" THEN "AIResearcher" ELSE "failed",
                           !.exc = b.exc,
                           !.methods = @ \cup b.bound,
                           !.classes = IF b.exc = "" THEN @ \cup {"AIResearcher"} ELSE @]
    /\ UNCHANGED <<ResolverVars, rt, vk, cl, gt, js, fs, rq, kb, tr, up, cm>>

\* lines 178-227: class SourceArchiver
DefineSourceArchiver ==
    /\ ar.pc = "AIResearcher"
    /\ LET b == class_body(SourceArchiverMethods, {})
       IN ar' = [ar EXCEPT !.pc = IF b.exc = "" THEN "SourceArchiver" ELSE "failed",
                           !.exc = b.exc,
                           !.methods = @ \cup b.bound,
                           !.classes = IF b.exc = "" THEN @ \cup {"SourceArchiver"} ELSE @]
    /\ UNCHANGED <<ResolverVars, rt, vk, cl, gt, js, fs, rq, kb, tr, up, cm>>

InitArchive ==
    /\ ResolverIdle
    /\ rt = Idle /\ vk = Idle /\ cl = Idle /\ gt = Idle /\ js = Idle /\ fs = Idle
    /\ rq = Idle
    /\ \E e \in ForceUpdateEnv, age \in ArchiveAges, token \in BOOLEAN :
          ar = [pc |-> "imports", environ |-> e, archive |-> age, GITHUB_TOKEN |-> token,
                FORCE_UPDATE |-> "unset", methods |-> {}, classes |-> {}, exc |-> ""]
    /\ kb = Idle /\ tr = Idle /\ up = Idle /\ cm = Idle

NextArchive == ReadConfiguration \/ DefineAIResearcher \/ DefineSourceArchiver

SpecArchive == InitArchive /\ [][NextArchive]_vars

-----------------------------------------------------------------------------
(* Properties of SourceArchiver.fetch_and_archive *)

\* the statement `class SourceArchiver` has been executed
SourceArchiverExecuted == ar.pc \in {"SourceArchiver", "failed"}

\* C24: fetch_and_archive is retried with exponential backoff, at most 3
\* attempts with a base delay of 1 s: once the class statement has been
\* executed, SourceArchiver exists and its fetch_and_archive is wrapped by a
\* retry of 3 attempts and base delay 1.
C24_FetchRetriedThreeTimes ==
    SourceArchiverExecuted =>
        /\ ar.exc = ""
        /\ "SourceArchiver" \in ar.classes
        /\ \E m \in ar.methods :
              /\ m.name = "fetch_and_archive"
              /\ m.params.max_attempts = 3
              /\ m.params.base_delay = 1

\* the decorator call of fetch_and_archive raised TypeError while the class
\* body was executed, with a fresh archive and FORCE_UPDATE unset
ClassBodyRaisedTypeError ==
    /\ ar.pc = "failed"
    /\ ar.exc = "TypeError"
    /\ "AIResearcher" \in ar.classes
    /\ "SourceArchiver" \notin ar.classes
    /\ ar.archive = "6"
    /\ ar.FORCE_UPDATE = "False"

\* the methods of AIResearcher are wrapped with 3 attempts and base delay 2
AIResearcherWrapped ==
    ar.pc \in {"AIResearcher", "failed"} =>
        \E m \in ar.methods : m.name = "query_ollama" /\ m.params.base_delay = 2
                                 /\ m.params.max_attempts = 3 /\ m.params.max_delay = 30

-----------------------------------------------------------------------------
(* research_pipeline.py: KBResearcher.update_kb *)

\* most lines of a knowledge base before the first update
MaxKbLen == 2

\* most calls of update_kb in a behaviour
MaxUpdates == 2

\* datetime.now().strftime('%Y-%m-%d')
Days == <<"2026-01-01", "2026-01-02">>

\* f"## Latest Updates (Auto-generated {date})", the heading of update_section
Heading(d) ==
    IF d = Days[1] THEN "## Latest Updates (Auto-generated 2026-01-01)"
    ELSE "## Latest Updates (Auto-generated 2026-01-02)"

\* the text is a sequence of lines; these are the lines told apart
License == "## License"
SubLicense == "### License"
KbLines == {"# Knowledge Base", License, SubLicense, Heading(Days[1])}

RECURSIVE SeqsUpTo(_, _)
SeqsUpTo(S, n) ==
    IF n = 0 THEN {<<>>}
    ELSE LET shorter == SeqsUpTo(S, n - 1)
         IN shorter \cup {Append(s, x) : s \in {t \in shorter : Len(t) = n - 1}, x \in S}

\* f"Auto-generated {today}" in line
mentions_update(line, today) == line = Heading(today)

\* f"Auto-generated {today}" in kb_content
updated_today(content, today) ==
    \E i \in 1..Len(content) : mentions_update(content[i], today)

\* "## License" in kb_content
has_license(content) ==
    \E i \in 1..Len(content) : content[i] \in {License, SubLicense}

\* the f-string update_section
update_section(insights, today) ==
    <<"---", Heading(today)>> \o insights \o <<"**Note**">>

\* kb_content.replace("## License", f"{update_section}\n## License"): every
\* occurrence is replaced, the one inside "### License" too
RECURSIVE replace_license(_, _)
replace_license(content, section) ==
    IF content = <<>> THEN <<>>
    ELSE LET rest == replace_license(Tail(content), section)
         IN CASE Head(content) = License -> section \o <<License>> \o rest
              [] Head(content) = SubLicense -> <<"#">> \o section \o <<License>> \o rest
              [] OTHER -> <<Head(content)>> \o rest

\* the text of a file: what was written to it, in order
RECURSIVE joined(_)
joined(chunks) == IF chunks = <<>> THEN <<>> ELSE Head(chunks) \o joined(Tail(chunks))

\* KB_PATH.exists()
path_exists(f) == f.parent = "dir" /\ f.file # "missing"

\* what update_kb hands back: the file afterwards, the value returned, the
\* last line logged, the content it built and the results of the two helpers
KbResult(f, ret, log, content, rd, wr) ==
    [f |-> f, ret |-> ret, log |-> log, content |-> content, rd |-> rd, wr |-> wr]

\* update_kb(insights)
update_kb(f, insights, today, force, o) ==
    IF ~path_exists(f)
    THEN KbResult(f, "False", "Knowledge base file not found", <<>>, NoFileResult, NoFileResult)
    ELSE
    LET rd == safe_file_read(f, <<>>, o.read)
        kb_content == joined(rd.r.text)
        section == update_section(insights.text, today)
        new_content == IF has_license(kb_content) THEN replace_license(kb_content, section)
                       ELSE kb_content \o section
        wr == safe_file_write(f, [text |-> new_content, encodable |-> insights.encodable],
                              "w", TRUE, o)
    IN IF rd.r.exc # ""
       THEN KbResult(f, "False", "Failed to read knowledge base", <<>>, rd.r, NoFileResult)
       ELSE IF updated_today(kb_content, today) /\ force # "True"
       THEN KbResult(f, "False", "KB already updated today, skipping...", <<>>, rd.r, NoFileResult)
       ELSE IF wr.r.exc # ""
       THEN KbResult(wr.f, "False", "Failed to write knowledge base", new_content, rd.r, wr.r)
       ELSE KbResult(wr.f, "True", "Knowledge base updated successfully", new_content, rd.r, wr.r)

\* the insights of a synthesis: some lines, possibly with a character that
\* UTF-8 cannot encode
Insights ==
    {[text |-> <<"finding">>, encodable |-> TRUE],
     [text |-> <<"finding">>, encodable |-> FALSE],
     [text |-> <<SubLicense>>, encodable |-> TRUE]}

\* run calls update_kb with the insights of the synthesis
UpdateKb ==
    /\ kb.calls < MaxUpdates
    /\ \E insights \in Insights,
          o \in [read : OsOutcomes, mkdir : {"ok"}, open : OsOutcomes, write : OsOutcomes] :
          LET s == update_kb(kb.f, insights, kb.today, kb.FORCE_UPDATE, o)
          IN kb' = [kb EXCEPT !.pc = "done", !.f = s.f, !.before = kb.f, !.ret = s.ret,
                              !.log = s.log, !.content = s.content, !.rd = s.rd,
                              !.wr = s.wr, !.calls = @ + 1]
    /\ UNCHANGED <<ResolverVars, rt, vk, cl, gt, js, fs, rq, ar, tr, up, cm>>

\* the date changes
Midnight ==
    /\ kb.today = Days[1]
    /\ kb' = [kb EXCEPT !.today = Days[2], !.pc = "idle"]
    /\ UNCHANGED <<ResolverVars, rt, vk, cl, gt, js, fs, rq, ar, tr, up, cm>>

\* the knowledge-base file before the first call
KbFiles ==
    {[parent |-> "dir", file |-> "regular", text |-> <<t>>, utf8 |-> TRUE] :
        t \in SeqsUpTo(KbLines, MaxKbLen)}
    \cup {[parent |-> "dir", file |-> "regular", text |-> <<(<<>>)>>, utf8 |-> FALSE]}
    \cup {[parent |-> "dir", file |-> k, text |-> <<>>, utf8 |-> TRUE] :
            k \in {"missing", "dir", "denied"}}

InitKb ==
    /\ ResolverIdle
    /\ rt = Idle /\ vk = Idle /\ cl = Idle /\ gt = Idle /\ js = Idle /\ fs = Idle
    /\ rq = Idle /\ ar = Idle
    /\ \E f \in KbFiles, force \in {"True", "False"} :
          kb = [pc |-> "idle", f |-> f, prior |-> f, before |-> f, FORCE_UPDATE |-> force,
                today |-> Days[1], ret |-> "", log |-> "", content |-> <<>>,
                rd |-> NoFileResult, wr |-> NoFileResult, calls |-> 0]
    /\ tr = Idle /\ up = Idle /\ cm = Idle

NextKb == UpdateKb \/ Midnight

SpecKb == InitKb /\ [][NextKb]_vars

-----------------------------------------------------------------------------
(* Properties of update_kb *)

\* the number of update sections of a date in a text
UpdateSections(text, d) ==
    Cardinality({i \in 1..Len(text) : text[i] = Heading(d)})

\* C25: with FORCE_UPDATE false, the calls of update_kb leave at most one
\* "Latest Updates (Auto-generated <date>)" section per date in the file
\* (and never more than the file held before the first call).
C25_OneUpdateSectionPerDate ==
    kb.FORCE_UPDATE = "False" =>
        \A k \in 1..Len(Days) :
            LET now == UpdateSections(joined(kb.f.text), Days[k])
                was == UpdateSections(joined(kb.prior.text), Days[k])
            IN now <= 1 \/ now <= was

\* one call wrote two sections of the same date
TwoSectionsFromOneCall ==
    /\ kb.FORCE_UPDATE = "False"
    /\ kb.calls = 1
    /\ kb.ret = "True"
    /\ UpdateSections(joined(kb.prior.text), kb.today) = 0
    /\ UpdateSections(joined(kb.f.text), kb.today) = 2
    /\ kb.prior.text = <<(<<SubLicense, License>>)>>

\* a second call on the day of an update that is in the file is skipped
SecondCallSkipped ==
    (/\ kb.pc = "done"
     /\ kb.FORCE_UPDATE = "False"
     /\ kb.before.file = "regular" /\ kb.before.utf8
     /\ kb.rd.failed = ""
     /\ UpdateSections(joined(kb.before.text), kb.today) >= 1)
    => (kb.ret = "False" /\ kb.f = kb.before)

\* the read or the write of the last call failed
KbReadFailed == kb.rd.op = "read" /\ kb.rd.failed # ""
KbWriteFailed == kb.wr.op = "write" /\ kb.wr.failed # ""

\* C26: update_kb returns True only if the new content was written to the
\* file; when the read or the write fails it returns False and the file is
\* left unchanged.
C26_TrueOnlyIfWritten ==
    kb.pc = "done" =>
        /\ kb.ret = "True" => (kb.f.file = "regular" /\ joined(kb.f.text) = kb.content)
        /\ (KbReadFailed \/ KbWriteFailed) => (kb.ret = "False" /\ kb.f = kb.before)

\* the write failed with an OSError and update_kb returned True
TrueAfterFailedWrite ==
    /\ kb.pc = "done"
    /\ kb.wr.failed = "write"
    /\ kb.wr.ret = "False"
    /\ kb.ret = "True"
    /\ kb.log = "Knowledge base updated successfully"

\* the read failed with an OSError and the knowledge base was overwritten
\* with the update section alone
OverwrittenAfterFailedRead ==
    /\ kb.pc = "done"
    /\ KbReadFailed
    /\ kb.ret = "True"
    /\ kb.before.text # <<(<<>>)>>
    /\ joined(kb.f.text) = update_section(<<"finding">>, kb.today)

\* what the code does: True is returned whenever no exception escaped the
\* helpers and the update was not skipped
KbReturnAsCoded ==
    kb.pc = "done" =>
        (kb.ret = "True" <=> (kb.wr.op = "write" /\ kb.wr.exc = ""))

-----------------------------------------------------------------------------
(* repo_tracker.py: GitHubRepoTracker.get_new_commits, get_incremental_updates *)

\* most commits in the history of the repository
MaxCommits == 53

\* most fetches that fail in a behaviour
MaxFetchErrors == 1

\* get_new_commits(self, max_count: int = 50)
max_count == 50

\* the commits are numbered in the order they were pushed: commit 1 is the
\* oldest, and repo.get_commits() lists them newest first; 0 stands for None
NoSha == 0

\* for commit in all_commits: ... with commits_data so far, from commit c
\* down; extracting the fail_at-th new commit raises (0: none does)
RECURSIVE commits_since(_, _, _, _, _)
commits_since(c, last_commit_sha, commits_data, limit, fail_at) ==
    IF c < 1 THEN [data |-> commits_data, exc |-> ""]
    ELSE IF c = last_commit_sha THEN [data |-> commits_data, exc |-> ""]
    ELSE IF fail_at = Len(commits_data) + 1 THEN [data |-> commits_data, exc |-> "Exception"]
    ELSE IF Len(commits_data) + 1 >= limit THEN [data |-> Append(commits_data, c), exc |-> ""]
    ELSE commits_since(c - 1, last_commit_sha, Append(commits_data, c), limit, fail_at)

\* commits = self.repo.get_commits()[:max_count]; for commit in commits: ...
RECURSIVE recent_commits(_, _, _, _)
recent_commits(c, commits_data, limit, fail_at) ==
    IF c < 1 \/ Len(commits_data) >= limit THEN [data |-> commits_data, exc |-> ""]
    ELSE IF fail_at = Len(commits_data) + 1 THEN [data |-> commits_data, exc |-> "Exception"]
    ELSE recent_commits(c - 1, Append(commits_data, c), limit, fail_at)

\* get_new_commits(max_count): the list returned and the state afterwards
get_new_commits(state, head, connected, limit, fail_at) ==
    IF ~connected THEN [ret |-> <<>>, state |-> state, exc |-> ""]
    ELSE LET got == IF state.last_commit_sha # NoSha
                    THEN commits_since(head, state.last_commit_sha, <<>>, limit, fail_at)
                    ELSE recent_commits(head, <<>>, limit, fail_at)
         IN IF got.exc # "" THEN [ret |-> got.data, state |-> state, exc |-> got.exc]
            ELSE IF got.data # <<>>
            THEN [ret |-> got.data,
                  state |-> [last_commit_sha |-> got.data[1],
                             total_commits_processed |->
                                 state.total_commits_processed + Len(got.data)],
                  exc |-> ""]
            ELSE [ret |-> got.data, state |-> state, exc |-> ""]

\* the commits of a list, as a set
Reported(list) == {list[i] : i \in 1..Len(list)}

\* get_incremental_updates(): updates['new_commits']
GetIncrementalUpdates ==
    /\ tr.pc \in {"loaded", "pushed"}
    /\ \E fail_at \in IF tr.errors < MaxFetchErrors THEN {0, 1, 2} ELSE {0} :
          LET s == get_new_commits(tr.state, tr.head, tr.connected, max_count, fail_at)
          IN tr' = [tr EXCEPT !.pc = "loaded",
                              !.state = s.state,
                              !.new_commits = s.ret,
                              !.counts = [c \in 1..MaxCommits |->
                                            IF c \in Reported(s.ret) THEN @[c] + 1 ELSE @[c]],
                              !.errors = IF s.exc # "" THEN @ + 1 ELSE @,
                              !.clean = @ /\ s.exc = ""
                                          /\ (tr.state.last_commit_sha # NoSha =>
                                                tr.head - tr.state.last_commit_sha <= max_count)]
    /\ UNCHANGED <<ResolverVars, rt, vk, cl, gt, js, fs, rq, ar, kb, up, cm>>

\* commits are pushed to the repository between two calls: one, or one
\* more than max_count
Push ==
    /\ tr.pc = "loaded"
    /\ \E k \in {1, max_count + 1} :
          /\ tr.head + k <= MaxCommits
          /\ tr' = [tr EXCEPT !.pc = "pushed", !.head = @ + k]
    /\ UNCHANGED <<ResolverVars, rt, vk, cl, gt, js, fs, rq, ar, kb, up, cm>>

\* the tracker after __init__: the state of the state file (every commit up
\* to last_commit_sha was reported by an earlier run), or a new state
InitTracker ==
    /\ ResolverIdle
    /\ rt = Idle /\ vk = Idle /\ cl = Idle /\ gt = Idle /\ js = Idle /\ fs = Idle
    /\ rq = Idle /\ ar = Idle /\ kb = Idle
    /\ \E head \in 1..2, connected \in BOOLEAN :
          \E sha \in 0..head :
              tr = [pc |-> "loaded", head |-> head, connected |-> connected,
                    state |-> [last_commit_sha |-> sha, total_commits_processed |-> sha],
                    stored |-> sha,
                    new_commits |-> <<>>,
                    counts |-> [c \in 1..MaxCommits |-> IF c <= sha THEN 1 ELSE 0],
                    errors |-> 0, clean |-> TRUE]
    /\ up = Idle /\ cm = Idle

NextTracker == GetIncrementalUpdates \/ Push

SpecTracker == InitTracker /\ [][NextTracker]_vars

-----------------------------------------------------------------------------
(* Properties of the incremental tracking *)

RECURSIVE ReportsUpTo(_)
ReportsUpTo(c) == IF c < 1 THEN 0 ELSE tr.counts[c] + ReportsUpTo(c - 1)

\* every commit newer than the sha stored at the start and not newer than
\* the sha stored now was returned by exactly one call; no newer commit
\* was returned yet
ExactlyOnce ==
    \A c \in 1..MaxCommits :
        /\ (tr.stored # NoSha /\ tr.stored < c /\ c <= tr.state.last_commit_sha)
              => tr.counts[c] = 1
        /\ (c > tr.state.last_commit_sha /\ tr.state.last_commit_sha # NoSha)
              => tr.counts[c] = 0

\* C27: across any sequence of get_incremental_updates calls against an
\* append-only history, every commit newer than the stored last_commit_sha
\* is returned by exactly one call, none is skipped and none is reported
\* twice, and total_commits_processed is the number of commits reported.
C27_EveryCommitExactlyOnce ==
    /\ ExactlyOnce
    /\ tr.state.total_commits_processed = ReportsUpTo(MaxCommits)

\* 51 commits were pushed between two calls; the call returned the 50
\* newest and the oldest of them was never returned
OldestOfFiftyOneSkipped ==
    /\ tr.pc = "loaded"
    /\ tr.stored = 1
    /\ tr.head = max_count + 2
    /\ tr.state.last_commit_sha = tr.head
    /\ Len(tr.new_commits) = max_count
    /\ tr.counts[2] = 0
    /\ tr.errors = 0

\* a fetch failed after one commit; the commit was returned and is
\* returned again by the next call
ReportedTwice ==
    /\ tr.pc = "loaded"
    /\ tr.errors = 1
    /\ \E c \in 1..MaxCommits : tr.counts[c] = 2 /\ tr.state.last_commit_sha = c

\* while no call finds more than max_count new commits and no fetch fails,
\* the tracking is exact
ExactWithinMaxCount == tr.clean => C27_EveryCommitExactlyOnce

-----------------------------------------------------------------------------
(* auto_update.py: main and AutoUpdater.run *)

\* argparse: --mode with choices auto, prompt, disabled; "" when not given
ArgModes == {"", "auto", "prompt", "disabled"}

ModeLine(v) == [key |-> "AUTO_UPDATE_MODE", value |-> v]
OtherLine == [key |-> "OLLAMA_API_KEY", value |-> "k"]

\* the .env file of the repository: missing, or its lines
DotEnvFiles ==
    {[exists |-> FALSE, lines |-> <<>>], [exists |-> TRUE, lines |-> <<>>]}
    \cup {[exists |-> TRUE, lines |-> <<ModeLine(v)>>] :
            v \in {"auto", "prompt", "disabled", "", "weekly"}}
    \cup {[exists |-> TRUE, lines |-> <<OtherLine, ModeLine("auto")>>],
          [exists |-> TRUE, lines |-> <<ModeLine("disabled"), ModeLine("auto")>>]}

\* for line in f: if line.strip().startswith('AUTO_UPDATE_MODE='): ... break
RECURSIVE first_mode_line(_, _)
first_mode_line(lines, mode) ==
    IF lines = <<>> THEN mode
    ELSE IF Head(lines).key = "AUTO_UPDATE_MODE" THEN Head(lines).value
    ELSE first_mode_line(Tail(lines), mode)

\* get_update_mode(): config_file is a Path, or None after the override of
\* main; None has no attribute `exists`
get_update_mode(config_file, file) ==
    IF config_file = "None" THEN [mode |-> "", exc |-> "AttributeError"]
    ELSE IF file.exists THEN [mode |-> first_mode_line(file.lines, "prompt"), exc |-> ""]
    ELSE [mode |-> "prompt", exc |-> ""]

\* run returned a value to main: sys.exit(0 if success else 1)
run_returns(u, success) ==
    [u EXCEPT !.pc = "exited", !.ret = IF success THEN "True" ELSE "False",
              !.exit_code = IF success THEN 0 ELSE 1]

\* main: the updater is made and --mode is applied
Main ==
    /\ up.pc = "main"
    /\ up' = IF up.args_mode # ""
             THEN IF up.args_mode = "disabled"
                  THEN [up EXCEPT !.pc = "exited", !.config_file = "None", !.exit_code = 0]
                  ELSE [up EXCEPT !.pc = "prerequisites", !.config_file = "None"]
             ELSE [up EXCEPT !.pc = "prerequisites"]
    /\ UNCHANGED <<ResolverVars, rt, vk, cl, gt, js, fs, rq, ar, kb, tr, cm>>

\* run: check_prerequisites()
CheckPrerequisites ==
    /\ up.pc = "prerequisites"
    /\ \E git_ok \in BOOLEAN :
          up' = IF git_ok THEN [up EXCEPT !.pc = "mode"] ELSE run_returns(up, FALSE)
    /\ UNCHANGED <<ResolverVars, rt, vk, cl, gt, js, fs, rq, ar, kb, tr, cm>>

\* run: update_mode = self.get_update_mode(); an exception leaves run and
\* is caught by main, which exits with 1
GetUpdateMode ==
    /\ up.pc = "mode"
    /\ LET m == get_update_mode(up.config_file, up.dotenv)
       IN up' = IF m.exc # ""
                THEN [up EXCEPT !.pc = "exited", !.looked_up = TRUE, !.exc = m.exc,
                                !.exit_code = 1]
                ELSE IF m.mode = "disabled"
                THEN run_returns([up EXCEPT !.looked_up = TRUE, !.update_mode = m.mode], TRUE)
                ELSE [up EXCEPT !.pc = "changes", !.looked_up = TRUE, !.update_mode = m.mode]
    /\ UNCHANGED <<ResolverVars, rt, vk, cl, gt, js, fs, rq, ar, kb, tr, cm>>

\* run: has_changes, changes = self.check_uncommitted_changes()
CheckUncommittedChanges ==
    /\ up.pc = "changes"
    /\ \E has_changes \in BOOLEAN :
          up' = [up EXCEPT !.pc = "fetch", !.has_changes = has_changes]
    /\ UNCHANGED <<ResolverVars, rt, vk, cl, gt, js, fs, rq, ar, kb, tr, cm>>

\* run: if not self.fetch_updates(): return False
FetchUpdates ==
    /\ up.pc = "fetch"
    /\ \E ok \in BOOLEAN :
          up' = IF ok THEN [up EXCEPT !.pc = "available", !.fetched = TRUE]
                ELSE run_returns([up EXCEPT !.fetched = TRUE], FALSE)
    /\ UNCHANGED <<ResolverVars, rt, vk, cl, gt, js, fs, rq, ar, kb, tr, cm>>

\* run: check_updates_available() and the decision by mode
DecideUpdate ==
    /\ up.pc = "available"
    /\ \E updates_available \in BOOLEAN, answer \in BOOLEAN :
          LET should_update ==
                  IF up.update_mode = "auto" \/ up.update_mode = "" THEN TRUE
                  ELSE IF up.update_mode = "prompt"
                  THEN (IF ~up.silent THEN answer ELSE FALSE)
                  ELSE TRUE
          IN up' = IF ~updates_available THEN run_returns(up, TRUE)
                   ELSE IF ~should_update THEN run_returns(up, TRUE)
                   ELSE [up EXCEPT !.pc = "backup"]
    /\ UNCHANGED <<ResolverVars, rt, vk, cl, gt, js, fs, rq, ar, kb, tr, cm>>

\* run: backup_path = self.create_backup()
CreateBackup ==
    /\ up.pc = "backup"
    /\ \E ok \in BOOLEAN :
          up' = IF ok THEN [up EXCEPT !.pc = "stash", !.backup = "created"]
                ELSE run_returns([up EXCEPT !.backup = "failed"], FALSE)
    /\ UNCHANGED <<ResolverVars, rt, vk, cl, gt, js, fs, rq, ar, kb, tr, cm>>

\* run: if has_changes: if not self.stash_changes(): return False
StashChanges ==
    /\ up.pc = "stash"
    /\ \E ok \in BOOLEAN :
          up' = IF ~up.has_changes THEN [up EXCEPT !.pc = "pull"]
                ELSE IF ok THEN [up EXCEPT !.pc = "pull", !.stashed = TRUE]
                ELSE run_returns(up, FALSE)
    /\ UNCHANGED <<ResolverVars, rt, vk, cl, gt, js, fs, rq, ar, kb, tr, cm>>

\* run: update_success = self.pull_updates(), and the branch of a failed
\* pull with its offer to restore the backup
PullUpdates ==
    /\ up.pc = "pull"
    /\ \E ok \in BOOLEAN, restore \in BOOLEAN :
          up' = IF ok THEN [up EXCEPT !.pc = "pop", !.pull = "ok", !.backup_at_pull = up.backup]
                ELSE run_returns([up EXCEPT !.pull = "failed", !.backup_at_pull = up.backup,
                                            !.restored = ~up.silent /\ restore], FALSE)
    /\ UNCHANGED <<ResolverVars, rt, vk, cl, gt, js, fs, rq, ar, kb, tr, cm>>

\* run: if has_changes: self.pop_stash(); then validation, cleanup and the
\* dependencies, and return True
PopStashAndFinish ==
    /\ up.pc = "pop"
    /\ \E o \in {"no stash listed", "popped", "pop failed"} :
          up' = run_returns([up EXCEPT !.popped = up.has_changes /\ o = "popped"], TRUE)
    /\ UNCHANGED <<ResolverVars, rt, vk, cl, gt, js, fs, rq, ar, kb, tr, cm>>

InitUpdate ==
    /\ ResolverIdle
    /\ rt = Idle /\ vk = Idle /\ cl = Idle /\ gt = Idle /\ js = Idle /\ fs = Idle
    /\ rq = Idle /\ ar = Idle /\ kb = Idle /\ tr = Idle
    /\ \E args_mode \in ArgModes, silent \in BOOLEAN, dotenv \in DotEnvFiles :
          up = [pc |-> "main", args_mode |-> args_mode, silent |-> silent, dotenv |-> dotenv,
                config_file |-> "Path", looked_up |-> FALSE, update_mode |-> "",
                has_changes |-> FALSE, fetched |-> FALSE, backup |-> "none",
                backup_at_pull |-> "none", stashed |-> FALSE, pull |-> "none",
                restored |-> FALSE, popped |-> FALSE, ret |-> "", exc |-> "",
                exit_code |-> 0]
    /\ cm = Idle

NextUpdate ==
    \/ Main
    \/ CheckPrerequisites
    \/ GetUpdateMode
    \/ CheckUncommittedChanges
    \/ FetchUpdates
    \/ DecideUpdate
    \/ CreateBackup
    \/ StashChanges
    \/ PullUpdates
    \/ PopStashAndFinish

SpecUpdate == InitUpdate /\ [][NextUpdate]_vars

-----------------------------------------------------------------------------
(* Properties of the updater *)

\* a pull was attempted only with a backup created before it
BackupBeforePull == up.pull # "none" => up.backup_at_pull = "created"

\* C28: a pull is attempted only after a backup was created, and whenever
\* run stashed the uncommitted changes the stash is popped before run
\* returns, on every path, the failed pull included.
C28_BackupThenPullAndStashPopped ==
    /\ BackupBeforePull
    /\ (up.pc = "exited" /\ up.stashed) => up.popped

\* the pull failed after the changes were stashed, and run returned False
\* with the changes still in the stash
StashLeftAfterFailedPull ==
    /\ up.pc = "exited"
    /\ up.stashed
    /\ up.pull = "failed"
    /\ ~up.popped
    /\ up.ret = "False"
    /\ up.backup = "created"

\* the stash is popped only on the path of a successful pull
PopOnlyAfterPull == up.popped => (up.pull = "ok" /\ up.stashed)

\* C29: --mode overrides the configured mode: with --mode auto or prompt the
\* mode lookup ends without an error and the updater runs with that mode;
\* with --mode disabled nothing is fetched or pulled and the exit code is 0.
C29_ModeOptionOverrides ==
    /\ (up.args_mode \in {"auto", "prompt"} /\ up.looked_up)
          => (up.exc = "" /\ up.update_mode = up.args_mode)
    /\ (up.args_mode = "disabled" /\ up.pc = "exited")
          => (~up.fetched /\ up.pull = "none" /\ up.exit_code = 0)

\* --mode auto: the lookup raised AttributeError and the exit code is 1
ModeOptionCrashed ==
    /\ up.args_mode = "auto"
    /\ up.looked_up
    /\ up.exc = "AttributeError"
    /\ up.exit_code = 1
    /\ ~up.fetched

\* what the code does with --mode: disabled exits with 0 before run; auto
\* and prompt never get past the mode lookup
ModeOptionAsCoded ==
    /\ (up.args_mode = "disabled" /\ up.pc # "main")
          => (up.pc = "exited" /\ up.exit_code = 0 /\ ~up.looked_up /\ ~up.fetched)
    /\ (up.args_mode \in {"auto", "prompt"})
          => (~up.fetched /\ up.pull = "none"
              /\ up.pc \in {"main", "prerequisites", "mode", "exited"})
    /\ (up.args_mode = "" /\ up.looked_up /\ up.exc = "" /\ up.dotenv.lines = <<ModeLine("disabled"), ModeLine("auto")>>)
          => up.update_mode = "disabled"

-----------------------------------------------------------------------------
(* config_manager.py: ConfigManager.load_config, save_config, reset_config *)

\* most lines of a .env or .env.template file before the first action
MaxDotEnvLines == 2

\* the settings told apart, in sorted order, and their values
ManagerKeys == <<"AGENT_MODE", "GITHUB_TOKEN">>
ManagerSettings == {"v1", "v2"}

\* a key that is not in the configuration
Unset == "unset"

\* the lines of a file: a comment, an empty line, or key=value
CommentLine == [kind |-> "#", key |-> "", value |-> ""]
EmptyLine == [kind |-> "", key |-> "", value |-> ""]
PairLine(k, v) == [kind |-> "=", key |-> k, value |-> v]

PairLines == {PairLine(ManagerKeys[i], v) : i \in 1..Len(ManagerKeys), v \in ManagerSettings}

\* for line in f: if line and not line.startswith('#') and '=' in line:
\*     self.config[key.strip()] = value.strip()
RECURSIVE read_lines(_, _)
read_lines(lines, config) ==
    IF lines = <<>> THEN config
    ELSE read_lines(Tail(lines),
                    IF Head(lines).kind = "="
                    THEN [config EXCEPT ![Head(lines).key] = Head(lines).value]
                    ELSE config)

\* load_config(): the lines of .env are read into self.config
load_config(file, config) ==
    IF ~file.exists THEN [ret |-> FALSE, config |-> config]
    ELSE [ret |-> TRUE, config |-> read_lines(file.lines, config)]

\* for key, value in sorted(self.config.items()): f.write(f"{key}={value}\n")
RECURSIVE sorted_items(_, _)
sorted_items(config, i) ==
    IF i > Len(ManagerKeys) THEN <<>>
    ELSE (IF config[ManagerKeys[i]] = Unset THEN <<>>
          ELSE <<PairLine(ManagerKeys[i], config[ManagerKeys[i]])>>)
         \o sorted_items(config, i + 1)

\* save_config(): the header and the sorted settings
saved_lines(config) ==
    <<CommentLine, CommentLine, CommentLine, CommentLine, EmptyLine>> \o sorted_items(config, 1)

\* self.config = {} of __init__
NoSettings == [k \in {ManagerKeys[i] : i \in 1..Len(ManagerKeys)} |-> Unset]

\* reset_config() after the two questions
reset_config(m, sure, really) ==
    IF ~sure \/ ~really THEN m
    ELSE IF m.template.exists
    THEN LET copied == [exists |-> TRUE, lines |-> m.template.lines]
         IN [m EXCEPT !.file = copied,
                      !.config = load_config(copied, m.config).config,
                      !.modified = FALSE,
                      !.reset = TRUE]
    ELSE m

\* run: load_config(), then the menu
ManagerRun ==
    /\ cm.pc = "new"
    /\ LET l == load_config(cm.file, cm.config)
       IN cm' = IF l.ret THEN [cm EXCEPT !.pc = "menu", !.config = l.config]
                ELSE [cm EXCEPT !.pc = "exited"]
    /\ UNCHANGED <<ResolverVars, rt, vk, cl, gt, js, fs, rq, ar, kb, tr, up>>

\* a menu that sets a value: self.config[key] = value; self.modified = True
ManagerSet ==
    /\ cm.pc = "menu"
    /\ \E i \in 1..Len(ManagerKeys), v \in ManagerSettings :
          cm' = [cm EXCEPT !.config[ManagerKeys[i]] = v, !.modified = TRUE,
                           !.reset = FALSE]
    /\ UNCHANGED <<ResolverVars, rt, vk, cl, gt, js, fs, rq, ar, kb, tr, up>>

\* save_config(); a failure of the write is reported and leaves
\* `modified` as it was
ManagerSave ==
    /\ cm.pc = "menu"
    /\ \E ok \in BOOLEAN :
          cm' = IF ok
                THEN [cm EXCEPT !.file = [exists |-> TRUE, lines |-> saved_lines(cm.config)],
                                !.modified = FALSE, !.reset = FALSE]
                ELSE [cm EXCEPT !.reset = FALSE]
    /\ UNCHANGED <<ResolverVars, rt, vk, cl, gt, js, fs, rq, ar, kb, tr, up>>

\* reset_config() with the answers of the user
ManagerReset ==
    /\ cm.pc = "menu"
    /\ \E sure \in BOOLEAN, really \in BOOLEAN :
          cm' = [reset_config([cm EXCEPT !.reset = FALSE], sure, really)
                    EXCEPT !.before = cm.config]
    /\ UNCHANGED <<ResolverVars, rt, vk, cl, gt, js, fs, rq, ar, kb, tr, up>>

\* the files before the manager starts
DotEnvTexts == SeqsUpTo(PairLines \cup {CommentLine}, MaxDotEnvLines)

InitManager ==
    /\ ResolverIdle
    /\ rt = Idle /\ vk = Idle /\ cl = Idle /\ gt = Idle /\ js = Idle /\ fs = Idle
    /\ rq = Idle /\ ar = Idle /\ kb = Idle /\ tr = Idle /\ up = Idle
    /\ \E lines \in DotEnvTexts, exists \in BOOLEAN,
          template \in {[exists |-> FALSE, lines |-> <<>>]}
                       \cup {[exists |-> TRUE, lines |-> t] : t \in SeqsUpTo(PairLines, 1)} :
          cm = [pc |-> "new",
                file |-> [exists |-> exists, lines |-> IF exists THEN lines ELSE <<>>],
                template |-> template, config |-> NoSettings, before |-> NoSettings,
                modified |-> FALSE, reset |-> FALSE]

NextManager == ManagerRun \/ ManagerSet \/ ManagerSave \/ ManagerReset

SpecManager == InitManager /\ [][NextManager]_vars

-----------------------------------------------------------------------------
(* Properties of the configuration manager *)

\* the key/value pairs of a file, read on their own
PairsOf(lines) ==
    [k \in DOMAIN NoSettings |->
        IF \E i \in 1..Len(lines) : lines[i].kind = "=" /\ lines[i].key = k
        THEN LET j == CHOOSE j \in 1..Len(lines) :
                        /\ lines[j].kind = "=" /\ lines[j].key = k
                        /\ \A h \in (j + 1)..Len(lines) :
                              ~(lines[h].kind = "=" /\ lines[h].key = k)
             IN lines[j].value
        ELSE Unset]

\* the last thing done was a confirmed reset with .env.template present
JustReset == cm.pc = "menu" /\ cm.reset

\* C30: after a confirmed reset with .env.template present, the in-memory
\* configuration is exactly the pairs of the template, and whenever
\* `modified` is false the in-memory configuration is the content of .env.
C30_ResetToTemplate ==
    /\ JustReset => cm.config = PairsOf(cm.template.lines)
    /\ (cm.pc = "menu" /\ ~cm.modified) => cm.config = PairsOf(cm.file.lines)

\* a token set before the reset is still in the configuration after it,
\* the template has no such key, and `modified` is false
SettingSurvivedReset ==
    /\ cm.pc = "menu"
    /\ cm.reset
    /\ ~cm.modified
    /\ cm.template.lines = <<PairLine("AGENT_MODE", "v1")>>
    /\ cm.before["GITHUB_TOKEN"] = "v2"
    /\ cm.config["GITHUB_TOKEN"] = "v2"
    /\ cm.file.lines = cm.template.lines

\* what the reset does: .env becomes the template, and the template's
\* pairs are laid over the configuration of before
ResetAsCoded ==
    JustReset =>
        /\ cm.file.lines = cm.template.lines
        /\ \A k \in DOMAIN NoSettings :
              cm.config[k] = IF PairsOf(cm.template.lines)[k] # Unset
                             THEN PairsOf(cm.template.lines)[k]
                             ELSE cm.before[k]

\* a save makes .env the content of the configuration
SavedIsFile ==
    (cm.pc = "menu" /\ ~cm.modified /\ cm.file.lines = saved_lines(cm.config))
        => cm.config = PairsOf(cm.file.lines)

====
